---- MODULE Spec2Model ----
(***************************************************************************)
(* Relay reference client (relay-rs): the two-party session life cycle     *)
(* over an MQTT broker.  Two clients run the main loop of main.rs; a third *)
(* identity is an offline peer whose retained key package the broker still *)
(* holds.  The MLS library and the broker are modelled at the interface    *)
(* the client code uses.                                                    *)
(***************************************************************************)
EXTENDS Naturals, Integers, Sequences, FiniteSets, TLC

\* ------------------------------------------------------------------ bounds
MaxConnects == 2  \* connect commands typed in one run, all clients
MaxChats  == 2    \* chat commands typed in one run, all clients
MaxFaults == 1    \* injected transport / MLS errors and foreign publishes in one run
MaxDups   == 1    \* QoS-1 redeliveries in one run

\* --------------------------------------------------------------- identities
\* client_id is hex::encode of 16 random bytes; two hex digits are kept.
IdA == <<1, 1>>
IdB == <<2, 1>>
IdC == <<2, 2>>
Unknown == <<0>>                 \* the "unknown" peer id of handle_welcome

Clients == {IdA, IdB}            \* processes running main()
PeerIds == {IdA, IdB, IdC}       \* ids a user can type
Texts   == 1 .. MaxChats       \* the n-th chat line typed carries text n

\* ------------------------------------------------------------------ HashMap
EmptyMap == << >>
contains_key(m, k) == k \in DOMAIN m
insert(m, k, v) == [x \in (DOMAIN m) \cup {k} |-> IF x = k THEN v ELSE m[x]]
Range(v) == {v[i] : i \in 1 .. Len(v)}
keys(m) == DOMAIN m

\* ------------------------------------------------------------------- topics
KTopic(id)  == [kind |-> "k",  id |-> id]      \* relay/k/<peer_id>
WTopic(id)  == [kind |-> "w",  id |-> id]      \* relay/w/<peer_id>
GMTopic(g)  == [kind |-> "gm", id |-> g]       \* relay/g/<group_hex>/m
GITopic(g)  == [kind |-> "gi", id |-> g]       \* relay/g/<group_hex>/i
UKeysTopic(id)  == [kind |-> "keys",  id |-> id]   \* relay/u/<user_id>/keys
UInboxTopic(id) == [kind |-> "inbox", id |-> id]   \* relay/u/<user_id>/inbox

\* ------------------------------------------------- sealed sender (relay)
\* Bytes are kept small: every byte is a residue of the prime field the toy
\* Diffie-Hellman group lives in.  X25519 becomes the subgroup of order 5
\* generated by 4 in the multiplicative group modulo 11, a key of KeyLen bytes
\* stands for the 32 bytes of a Montgomery point, NonceLen and TagLen for the
\* 12-byte nonce and the 16-byte tag of AES-GCM.
Prime == 11
Generator == 4
Byte == 0 .. (Prime - 1)
Scalars == 1 .. 4
KeyLen == 1
NonceLen == 1
TagLen == 1

RECURSIVE SumTo(_, _)
SumTo(f, n) == IF n = 0 THEN 0 ELSE f[n] + SumTo(f, n - 1)

RECURSIVE ModExp(_, _)
ModExp(b, e) == IF e = 0 THEN 1 ELSE (b * ModExp(b, e - 1)) % Prime

\* MontgomeryPoint::mul_base(&secret) and secret * point.
mul_base(secret) == ModExp(Generator, secret)
scalar_mul(secret, point) == ModExp(point, secret)

\* generate_outer_keys, for the scalar the random generator returned.
generate_outer_keys(secret) == [secret |-> secret, public |-> mul_base(secret)]

\* Hkdf::<Sha256>::new(None, shared).expand(b"relay-seal-v1"): a key that
\* differs whenever the shared secret differs.
hkdf_expand(shared) == (3 * shared + 1) % Prime

\* The GCM tag over nonce and ciphertext under the key: it changes with the
\* key, with the nonce and with every single ciphertext byte.
GcmTag(key, nonce, ct) ==
    (key + 2 * nonce
         + SumTo([i \in 1 .. Len(ct) |-> ((i % 10) + 1) * ct[i]], Len(ct))) % Prime

\* cipher.encrypt(&nonce, plain): ciphertext followed by the tag.
Aes256Gcm_encrypt(key, nonce, plain) ==
    LET ct == [i \in 1 .. Len(plain) |-> (plain[i] + key + nonce + i) % Prime]
    IN  ct \o <<GcmTag(key, nonce, ct)>>

\* Mutant of Aes256Gcm_decrypt: the tag is not compared.
Aes256Gcm_decrypt_no_tag(key, nonce, c) ==
    IF Len(c) < TagLen
    THEN [ok |-> FALSE, plain |-> << >>]
    ELSE LET ct == SubSeq(c, 1, Len(c) - TagLen)
         IN  [ok |-> TRUE,
              plain |-> [i \in 1 .. Len(ct) |->
                           (ct[i] + 5 * Prime - key - nonce - i) % Prime]]

\* cipher.decrypt(nonce, ct): fails when the tag does not match.
Aes256Gcm_decrypt(key, nonce, c) ==
    IF Len(c) < TagLen
    THEN [ok |-> FALSE, plain |-> << >>]
    ELSE LET ct == SubSeq(c, 1, Len(c) - TagLen)
             tag == c[Len(c)]
         IN  IF tag # GcmTag(key, nonce, ct)
             THEN [ok |-> FALSE, plain |-> << >>]
             ELSE [ok |-> TRUE,
                   plain |-> [i \in 1 .. Len(ct) |->
                                (ct[i] + 5 * Prime - key - nonce - i) % Prime]]

\* A CBOR byte or text string: the length, then the bytes.
Bstr(s) == <<Len(s)>> \o s

\* Reads the string that starts at position i of bytes.
ReadBstr(bytes, i) ==
    IF i > Len(bytes) \/ i + bytes[i] > Len(bytes)
    THEN [ok |-> FALSE, val |-> << >>, next |-> i]
    ELSE [ok |-> TRUE, val |-> SubSeq(bytes, i + 1, i + bytes[i]),
          next |-> i + bytes[i] + 1]

\* struct InnerPayload
InnerPayload(msg_type, sender_user_id, content, ratchet_tree, sender_outer_public_key) ==
    [msg_type |-> msg_type, sender_user_id |-> sender_user_id,
     sender_identity_key |-> << >>, content |-> content,
     ratchet_tree |-> ratchet_tree,
     sender_outer_public_key |-> sender_outer_public_key]

\* ciborium::into_writer(payload, ..) and ciborium::from_reader for InnerPayload.
EncodePayload(p) ==
    <<p.msg_type>> \o Bstr(p.sender_user_id) \o Bstr(p.sender_identity_key)
        \o Bstr(p.content) \o Bstr(p.ratchet_tree) \o Bstr(p.sender_outer_public_key)

DecodePayload(bytes) ==
    LET a == ReadBstr(bytes, 2)
        b == ReadBstr(bytes, a.next)
        c == ReadBstr(bytes, b.next)
        d == ReadBstr(bytes, c.next)
        e == ReadBstr(bytes, d.next)
    IN  IF /\ Len(bytes) >= 1
           /\ a.ok /\ b.ok /\ c.ok /\ d.ok /\ e.ok
           /\ e.next = Len(bytes) + 1
        THEN [ok |-> TRUE,
              payload |-> [msg_type |-> bytes[1], sender_user_id |-> a.val,
                           sender_identity_key |-> b.val, content |-> c.val,
                           ratchet_tree |-> d.val,
                           sender_outer_public_key |-> e.val]]
        ELSE [ok |-> FALSE, payload |-> InnerPayload(0, << >>, << >>, << >>, << >>)]

\* struct SealedEnvelope
SealedEnvelope(version, ephemeral_public_key, encrypted_payload, pow_nonce) ==
    [version |-> version, ephemeral_public_key |-> ephemeral_public_key,
     encrypted_payload |-> encrypted_payload, pow_nonce |-> pow_nonce]

\* ciborium::into_writer(&envelope, ..) and ciborium::from_reader for
\* SealedEnvelope; a small unsigned integer is its own CBOR byte.
EncodeEnvelope(e) ==
    <<e.version>> \o Bstr(e.ephemeral_public_key) \o Bstr(e.encrypted_payload)
        \o <<e.pow_nonce>>

DecodeEnvelope(bytes) ==
    LET a == ReadBstr(bytes, 2)
        b == ReadBstr(bytes, a.next)
    IN  IF /\ Len(bytes) >= 1
           /\ a.ok /\ b.ok
           /\ b.next = Len(bytes)
        THEN [ok |-> TRUE,
              envelope |-> SealedEnvelope(bytes[1], a.val, b.val, bytes[Len(bytes)])]
        ELSE [ok |-> FALSE, envelope |-> SealedEnvelope(0, << >>, << >>, 0)]

\* Sha256 of the encoded envelope, its first two bytes: each input byte
\* weighs in, the last one (pow_nonce) with weight one, so that counting
\* pow_nonce up walks through every value of the pair.
Sha256(bytes) ==
    LET n == Len(bytes)
        h == SumTo([i \in 1 .. n |-> (((n - i) % 4) + 1) * bytes[i]], n)
    IN  <<h % 2, (h \div 2) % 2>>

\* hash[0] == 0 && hash[1] == 0
PowOk(envelope) ==
    LET hash == Sha256(EncodeEnvelope(envelope))
    IN  hash[1] = 0 /\ hash[2] = 0

\* Mutant of Mine: the envelope goes out with pow_nonce 0.
Mine_skipped(envelope) == envelope

\* The mining loop of seal_message: pow_nonce counts up until the hash has
\* two leading zero bytes.
RECURSIVE Mine(_)
Mine(envelope) ==
    IF PowOk(envelope) THEN envelope
    ELSE Mine([envelope EXCEPT !.pow_nonce = @ + 1])

\* seal_message, for the ephemeral scalar and the nonce the random generator
\* returned.
seal_message(payload, peer_public_bytes, eph_sec, nonce) ==
    IF Len(peer_public_bytes) # KeyLen
    THEN [ok |-> FALSE, err |-> "Invalid Key",
          envelope |-> SealedEnvelope(0, << >>, << >>, 0)]
    ELSE LET payload_bytes == EncodePayload(payload)
             eph_pub == mul_base(eph_sec)
             shared_secret == scalar_mul(eph_sec, peer_public_bytes[1])
             key_bytes == hkdf_expand(shared_secret)
             ciphertext == Aes256Gcm_encrypt(key_bytes, nonce, payload_bytes)
             final_ct == <<nonce>> \o ciphertext
         IN  [ok |-> TRUE, err |-> "none",
              envelope |-> Mine(SealedEnvelope(1, <<eph_pub>>, final_ct, 0))]

\* What unseal_message returns: the payload or the error, and what it has
\* computed on the way.
Unsealed(err, done, payload) == [ok |-> err = "none", err |-> err, done |-> done, payload |-> payload]
NoPayload == InnerPayload(0, << >>, << >>, << >>, << >>)

\* Mutant of unseal_message: the proof of work is not checked.
unseal_message_no_pow(envelope, my_secret) ==
    IF Len(envelope.ephemeral_public_key) # KeyLen
    THEN Unsealed("Key", <<"hash">>, NoPayload)
    ELSE LET shared == scalar_mul(my_secret, envelope.ephemeral_public_key[1])
             key_bytes == hkdf_expand(shared)
         IN  IF Len(envelope.encrypted_payload) < NonceLen
             THEN Unsealed("Short", <<"hash", "ecdh">>, NoPayload)
             ELSE LET nonce == envelope.encrypted_payload[1]
                      ct == Tail(envelope.encrypted_payload)
                      plain == Aes256Gcm_decrypt(key_bytes, nonce, ct)
                  IN  IF ~plain.ok
                      THEN Unsealed("Decrypt Fail", <<"hash", "ecdh", "decrypt">>, NoPayload)
                      ELSE LET inner == DecodePayload(plain.plain) IN
                           IF ~inner.ok
                           THEN Unsealed("Decode", <<"hash", "ecdh", "decrypt">>, NoPayload)
                           ELSE Unsealed("none", <<"hash", "ecdh", "decrypt">>, inner.payload)

\* unseal_message: the proof of work first, then the key agreement, the
\* length of the payload, the decryption and the decoding.
unseal_message(envelope, my_secret) ==
    IF ~PowOk(envelope)
    THEN Unsealed("Invalid PoW", <<"hash">>, NoPayload)
    ELSE IF Len(envelope.ephemeral_public_key) # KeyLen
    THEN Unsealed("Key", <<"hash">>, NoPayload)
    ELSE LET shared == scalar_mul(my_secret, envelope.ephemeral_public_key[1])
             key_bytes == hkdf_expand(shared)
         IN  IF Len(envelope.encrypted_payload) < NonceLen
             THEN Unsealed("Short", <<"hash", "ecdh">>, NoPayload)
             ELSE LET nonce == envelope.encrypted_payload[1]
                      ct == Tail(envelope.encrypted_payload)
                      plain == Aes256Gcm_decrypt(key_bytes, nonce, ct)
                  IN  IF ~plain.ok
                      THEN Unsealed("Decrypt Fail", <<"hash", "ecdh", "decrypt">>, NoPayload)
                      ELSE LET inner == DecodePayload(plain.plain) IN
                           IF ~inner.ok
                           THEN Unsealed("Decode", <<"hash", "ecdh", "decrypt">>, NoPayload)
                           ELSE Unsealed("none", <<"hash", "ecdh", "decrypt">>, inner.payload)

\* ----------------------------------------------------------- mqtt requests
\* Every call passes QoS::AtLeastOnce.
AtLeastOnce == 1

Publish(topic, retain, payload) ==
    [req |-> "publish", topic |-> topic, qos |-> AtLeastOnce, retain |-> retain,
     payload |-> payload]
Subscribe(topic) ==
    [req |-> "subscribe", topic |-> topic, qos |-> AtLeastOnce, retain |-> FALSE,
     payload |-> [type |-> "none"]]

\* -------------------------------------------------------------------- state
VARIABLES
    pc,               \* position of each client's main thread
    key_packages,     \* RelayClient.key_packages : peer_id -> KeyPackage
    groups,           \* RelayClient.groups       : peer_id -> MlsGroup
    group_peers,      \* RelayClient.group_peers  : group_id -> peer_id
    pending_connects, \* RelayClient.pending_connects : Vec of peer_id
    kp_store,         \* backend storage: serials of own key packages still usable
    kp_next,          \* serial of the next key package the client builds
    outq,             \* rumqttc request channel of each client, in order
    inbox,            \* mpsc channel (topic, payload) of each client, in order
    subs,             \* broker: topics each client is subscribed to
    retained,         \* broker: topic -> retained payload
    nextGid,          \* number of group ids drawn so far
    shown,            \* application messages displayed by log_msg(peer, text, false)
    sent,             \* chat lines echoed by log_msg("", text, true), with the peer
    last,             \* the last handler or command that ran, and how it ended
    typed,            \* the peer ids the user of each client types in this run
    connects,         \* connect commands still to be typed
    chats,            \* chat commands still to be typed
    faults,           \* transport / MLS errors and foreign publishes still to happen
    dups,             \* redeliveries still to happen
    state,            \* relay: the AppState behind Arc<Mutex<..>> of each client
    mutex,            \* relay: the task that holds the state mutex of each client
    transport,        \* relay: position and locals of the spawned event-loop task
    command,          \* relay: position and locals of send_chat in the main task
    mls,              \* swift-openmls: RelayMlsClient of each identity
    returned,         \* swift-openmls: the byte strings the calls have returned
    args,             \* seal_message / unseal_message: the arguments of the calls
    ret               \* seal_message / unseal_message: what the calls returned

rs_vars == << key_packages, groups, group_peers, pending_connects, kp_store,
             kp_next, dups >>
mqtt_vars == << pc, outq, inbox, subs, retained, nextGid, shown, sent, last,
               typed, connects, chats, faults >>
relay_vars == << state, mutex, transport, command >>
facade_vars == << mls, returned >>
seal_vars == << args, ret >>

vars == << pc, key_packages, groups, group_peers, pending_connects, kp_store,
           kp_next, outq, inbox, subs, retained, nextGid, shown, sent, last,
           typed, connects, chats, faults, dups, relay_vars, facade_vars,
           seal_vars >>

KeyPackage(owner, n) == [owner |-> owner, n |-> n]

\* The arguments of one seal_message / unseal_message round: the payload, the
\* recipient's outer secret, what the random generator returns for the
\* ephemeral scalar and the nonce, and the secret unseal_message is given.
Call(payload, outer_secret, eph_sec, nonce, my_secret) ==
    [payload |-> payload, outer_secret |-> outer_secret, eph_sec |-> eph_sec,
     nonce |-> nonce, my_secret |-> my_secret]
NoCall == Call(NoPayload, 1, 1, 0, 1)

\* The outer key pair of each identity (generate_outer_keys in main).
OuterSecret(id) == CASE id = IdA -> 1 [] id = IdB -> 2 [] OTHER -> 3
OuterPublic(id) == <<mul_base(OuterSecret(id))>>

\* The AppState main() builds: one key package, whose private part is in the
\* backend storage, the outer key pair and three empty maps.
AppState(c) ==
    [backend |-> {1}, user_id |-> c, key_package |-> KeyPackage(c, 1),
     outer_secret |-> OuterSecret(c), outer_public |-> OuterPublic(c),
     peer_bundles |-> EmptyMap, peer_outer_keys |-> EmptyMap,
     groups |-> EmptyMap]

\* The spawned task waits in eventloop.poll(); send_chat is not running.
Polling == [at |-> "poll", topic |-> Unknown, payload |-> [type |-> "none"], inner |-> NoPayload]
Idle == [at |-> "idle", peer |-> Unknown, text |-> 0, bytes |-> << >>]

\* RelayMlsClient::new(client_id): no group, no key package built yet.
RelayMlsClient(c) == [client_id |-> c, groups |-> EmptyMap, backend |-> {}, built |-> 0]

\* Nothing has been called yet.
NoEnvelope == SealedEnvelope(0, << >>, << >>, 0)
NoReturn ==
    [at |-> "none", sealed |-> NoEnvelope, envelope |-> NoEnvelope,
     changed |-> "no", out |-> Unsealed("not called", << >>, NoPayload)]
Ran(c, op, peer, res) == [c |-> c, op |-> op, peer |-> peer, res |-> res]

\* The state after RelayClient::new() in every client, with the budgets of
\* the run.
StartWith(ids, nconnect, nchat, nfault, ndup, call) ==
    /\ pc = [c \in Clients |-> "boot"]
    /\ key_packages = [c \in Clients |-> EmptyMap]
    /\ groups = [c \in Clients |-> EmptyMap]
    /\ group_peers = [c \in Clients |-> EmptyMap]
    /\ pending_connects = [c \in Clients |-> << >>]
    /\ kp_store = [c \in Clients |-> {}]
    /\ kp_next = [c \in Clients |-> 1]
    /\ outq = [c \in Clients |-> << >>]
    /\ inbox = [c \in Clients |-> << >>]
    /\ subs = [c \in Clients |-> {}]
    /\ retained = insert(EmptyMap, KTopic(IdC),
                         [type |-> "kp", kp |-> KeyPackage(IdC, 1)])
    /\ nextGid = 0
    /\ shown = [c \in Clients |-> << >>]
    /\ sent = [c \in Clients |-> << >>]
    /\ last = Ran(Unknown, "init", Unknown, "ok")
    /\ typed = ids
    /\ connects = nconnect
    /\ chats = nchat
    /\ faults = nfault
    /\ dups = ndup
    /\ state = [c \in Clients |-> AppState(c)]
    /\ mutex = [c \in Clients |-> "free"]
    /\ transport = [c \in Clients |-> Polling]
    /\ command = [c \in Clients |-> Idle]
    /\ mls = [c \in PeerIds |-> RelayMlsClient(c)]
    /\ returned = {}
    /\ args = call
    /\ ret = NoReturn

Start(ids, nconnect, nchat, nfault, ndup) ==
    StartWith(ids, nconnect, nchat, nfault, ndup, NoCall)

\* Two clients whose users connect to and chat with the other one; no transport
\* or MLS error is injected and nothing is redelivered.
Init == Start([c \in Clients |-> Clients \ {c}], MaxConnects, MaxChats, 0, 0)

\* --------------------------------------------------------- MLS library facade
\* Mutant of NewGroup: the commit that adds the peer is never merged, so the
\* creator stays alone in its group.
NewGroup_unmerged(c, gid, peer_kp) ==
    [gid |-> gid, members |-> <<c>>, epoch |-> 0, own |-> c,
     sendGen |-> 0, recvGen |-> 0]

\* MlsGroup::new_with_group_id, add_members and merge_pending_commit: the
\* creator is leaf 0, the owner of the key package leaf 1, epoch 1 after merge.
NewGroup(c, gid, peer_kp) ==
    [gid |-> gid, members |-> <<c, peer_kp.owner>>, epoch |-> 1, own |-> c,
     sendGen |-> 0, recvGen |-> 0]

\* The Welcome add_members returns: encrypted to the key package it consumed.
WelcomeOf(group, peer_kp) ==
    [type |-> "welcome", gid |-> group.gid, members |-> group.members,
     epoch |-> group.epoch, kp |-> peer_kp]

GroupInfoOf(group) == [type |-> "group_info", gid |-> group.gid]

\* StagedWelcome::new_from_welcome succeeds only while the private part of the
\* key package the Welcome names is still in the joiner's storage.
CanJoin(c, w) == w.kp.owner = c /\ w.kp.n \in kp_store[c]

\* Mutant of JoinedGroup: the joiner adds a further member to the group it
\* joined.
JoinedGroup_add(c, w) ==
    [gid |-> w.gid, members |-> w.members \o <<IdC>>, epoch |-> w.epoch + 1,
     own |-> c, sendGen |-> 0, recvGen |-> 0]

\* StagedWelcome::into_group
JoinedGroup(c, w) ==
    [gid |-> w.gid, members |-> w.members, epoch |-> w.epoch, own |-> c,
     sendGen |-> 0, recvGen |-> 0]

\* group.create_message: a PrivateMessage of the sender's next generation.
AppMessage(group, text) ==
    [type |-> "app", gid |-> group.gid, epoch |-> group.epoch,
     sender |-> group.own, gen |-> group.sendGen, body |-> text]

\* Mutant of ProcessResult: the sender's own message decrypts like any other.
ProcessResult_echo(group, m) ==
    IF m.gid # group.gid THEN "WrongGroupId"
    ELSE IF m.epoch # group.epoch THEN "WrongEpoch"
    ELSE IF m.gen < group.recvGen THEN "SecretReuse"
    ELSE "ApplicationMessage"

\* group.process_message on a PrivateMessage.
ProcessResult(group, m) ==
    IF m.gid # group.gid THEN "WrongGroupId"
    ELSE IF m.epoch # group.epoch THEN "WrongEpoch"
    ELSE IF m.sender = group.own THEN "CannotDecryptOwnMessage"
    ELSE IF m.gen < group.recvGen THEN "SecretReuse"
    ELSE "ApplicationMessage"

\* ------------------------------------------------------------------ faults
NoFault(f) == f = "none"
FaultOk(f) == NoFault(f) \/ faults > 0
FaultSpent(f) == faults' = IF NoFault(f) THEN faults ELSE faults - 1

\* ------------------------------------------------------------------ broker
Event(topic, payload) == [topic |-> topic, payload |-> payload]

\* The broker takes the next request of client c: a publish is stored when
\* retained and forwarded to every connected subscriber of the topic; a
\* subscribe registers the topic and delivers its retained message.
BrokerRecv(c) ==
    /\ outq[c] # << >>
    /\ LET r == Head(outq[c]) IN
        /\ outq' = [outq EXCEPT ![c] = Tail(@)]
        /\ IF r.req = "publish"
           THEN /\ retained' = IF r.retain THEN insert(retained, r.topic, r.payload)
                                            ELSE retained
                /\ inbox' = [d \in Clients |->
                                IF r.topic \in subs[d] /\ pc[d] # "quit"
                                THEN Append(inbox[d], Event(r.topic, r.payload))
                                ELSE inbox[d]]
                /\ subs' = subs
           ELSE /\ subs' = [subs EXCEPT ![c] = @ \cup {r.topic}]
                /\ inbox' = IF contains_key(retained, r.topic) /\ pc[c] # "quit"
                             THEN [inbox EXCEPT ![c] =
                                     Append(@, Event(r.topic, retained[r.topic]))]
                             ELSE inbox
                /\ retained' = retained
    /\ UNCHANGED << pc, key_packages, groups, group_peers, pending_connects,
                    kp_store, kp_next, nextGid, shown, sent, last, typed, connects, chats, faults, dups >>
    /\ UNCHANGED << relay_vars, facade_vars, seal_vars >>

\* The broker has no access control: any other broker client can publish on a
\* topic.  The event thread forwards whatever arrives to the channel, here a
\* payload that decodes to nothing.  It counts as one of the run's errors.
Junk == [type |-> "junk"]

ForeignPublish(topic) ==
    /\ faults > 0
    /\ \E d \in Clients : topic \in subs[d] /\ pc[d] # "quit"
    /\ inbox' = [d \in Clients |->
                    IF topic \in subs[d] /\ pc[d] # "quit"
                    THEN Append(inbox[d], Event(topic, Junk))
                    ELSE inbox[d]]
    /\ faults' = faults - 1
    /\ UNCHANGED << pc, key_packages, groups, group_peers, pending_connects,
                    kp_store, kp_next, outq, subs, retained, nextGid, shown,
                    sent, last, typed, connects, chats, dups >>
    /\ UNCHANGED << relay_vars, facade_vars, seal_vars >>

\* Events the model keeps in a channel that a foreign publisher fills.
MaxInbox == 2

\* A foreign publisher that does not stop: its publishes are not among the
\* run's counted errors.  The mpsc channel is unbounded; the publisher waits
\* while a subscriber's channel holds MaxInbox events.
Flood(topic) ==
    /\ \E d \in Clients : topic \in subs[d] /\ pc[d] # "quit"
    /\ \A d \in Clients : topic \in subs[d] => Len(inbox[d]) < MaxInbox
    /\ inbox' = [d \in Clients |->
                    IF topic \in subs[d] /\ pc[d] # "quit"
                    THEN Append(inbox[d], Event(topic, Junk))
                    ELSE inbox[d]]
    /\ UNCHANGED << pc, key_packages, groups, group_peers, pending_connects,
                    kp_store, kp_next, outq, subs, retained, nextGid, shown,
                    sent, last, typed, connects, chats, faults, dups >>
    /\ UNCHANGED << relay_vars, facade_vars, seal_vars >>

\* QoS 1 is at-least-once: the event at the head of the channel arrives twice.
Redeliver(c) ==
    /\ dups > 0
    /\ inbox[c] # << >>
    /\ inbox' = [inbox EXCEPT ![c] = <<Head(@)>> \o @]
    /\ dups' = dups - 1
    /\ UNCHANGED << pc, key_packages, groups, group_peers, pending_connects,
                    kp_store, kp_next, outq, subs, retained, nextGid, shown,
                    sent, last, typed, connects, chats, faults >>
    /\ UNCHANGED << relay_vars, facade_vars, seal_vars >>

\* --------------------------------------------------------- initialization
\* Mutant of publish_key_package: the key package published is the one built
\* last time, not a new one.
publish_key_package_stale(c) ==
    Publish(KTopic(c), TRUE, [type |-> "kp", kp |-> KeyPackage(c, kp_next[c] - 1)])

\* Mutant of publish_key_package: the key package is published without the
\* retained flag.
publish_key_package_unretained(c) ==
    Publish(KTopic(c), FALSE, [type |-> "kp", kp |-> KeyPackage(c, kp_next[c])])

\* publish_key_package: build a key package, keep its private part in the
\* backend storage, publish it retained on relay/k/<self>.
publish_key_package(c) ==
    Publish(KTopic(c), TRUE, [type |-> "kp", kp |-> KeyPackage(c, kp_next[c])])

subscribe_welcome(c) == Subscribe(WTopic(c))

\* main(): publish_key_package, subscribe_welcome, then the loop.
Boot(c) ==
    /\ pc[c] = "boot"
    /\ pc' = [pc EXCEPT ![c] = "run"]
    /\ outq' = [outq EXCEPT ![c] = @ \o <<publish_key_package(c), subscribe_welcome(c)>>]
    /\ kp_store' = [kp_store EXCEPT ![c] = @ \cup {kp_next[c]}]
    /\ kp_next' = [kp_next EXCEPT ![c] = @ + 1]
    /\ last' = Ran(c, "boot", c, "ok")
    /\ UNCHANGED << key_packages, groups, group_peers, pending_connects, inbox,
                    subs, retained, nextGid, shown, sent, typed, connects, chats, faults, dups >>
    /\ UNCHANGED << relay_vars, facade_vars, seal_vars >>

\* ------------------------------------------------------------- Vec helpers
\* iter().position(|p| p == x): the first index holding x, 0 when absent.
position(v, x) ==
    IF \E i \in 1 .. Len(v) : v[i] = x
    THEN CHOOSE i \in 1 .. Len(v) : v[i] = x /\ \A j \in 1 .. (i - 1) : v[j] # x
    ELSE 0

\* Vec::remove(pos)
remove(v, pos) == SubSeq(v, 1, pos - 1) \o SubSeq(v, pos + 1, Len(v))

\* str::starts_with
starts_with(k, q) == Len(q) <= Len(k) /\ SubSeq(k, 1, Len(q)) = q

\* ----------------------------------------------------------- create_group
\* Mutant of create_group: the Welcome is never published.
create_group_no_welcome(c, peer_id, kps, fail) ==
    IF ~contains_key(kps, peer_id)
    THEN [ok |-> FALSE, drew |-> FALSE, installed |-> FALSE, reqs |-> << >>,
          gid |-> Unknown, group |-> NewGroup(c, Unknown, KeyPackage(c, 0))]
    ELSE LET peer_kp == kps[peer_id]
             gid == <<nextGid + 1>>
             group == NewGroup(c, gid, peer_kp)
             gi == Publish(GITopic(gid), TRUE, GroupInfoOf(group))
             w == Publish(WTopic(peer_id), FALSE, WelcomeOf(group, peer_kp))
             sb == Subscribe(GMTopic(gid))
         IN  [ok |-> NoFault(fail), drew |-> TRUE, installed |-> NoFault(fail),
              reqs |-> CASE fail = "mls" -> << >>
                         [] fail = "pub_w" -> <<gi>>
                         [] fail = "sub" -> <<gi, w>>
                         [] OTHER -> <<gi, sb>>,
              gid |-> gid, group |-> group]

\* Mutant of create_group: the group topic is never subscribed to.
create_group_no_subscribe(c, peer_id, kps, fail) ==
    IF ~contains_key(kps, peer_id)
    THEN [ok |-> FALSE, drew |-> FALSE, installed |-> FALSE, reqs |-> << >>,
          gid |-> Unknown, group |-> NewGroup(c, Unknown, KeyPackage(c, 0))]
    ELSE LET peer_kp == kps[peer_id]
             gid == <<nextGid + 1>>
             group == NewGroup(c, gid, peer_kp)
             gi == Publish(GITopic(gid), TRUE, GroupInfoOf(group))
             w == Publish(WTopic(peer_id), FALSE, WelcomeOf(group, peer_kp))
             sb == Subscribe(GMTopic(gid))
         IN  [ok |-> NoFault(fail), drew |-> TRUE, installed |-> NoFault(fail),
              reqs |-> CASE fail = "mls" -> << >>
                         [] fail = "pub_w" -> <<gi>>
                         [] fail = "sub" -> <<gi, w>>
                         [] OTHER -> <<gi, w>>,
              gid |-> gid, group |-> group]

\* What create_group(peer_id) does on a client whose key-package map is kps:
\* the requests it hands to the mqtt client, and the group it installs when it
\* runs to the end.  fail names the step that returns an error: "mls" (group
\* creation, add_members, merge_pending_commit or the GroupInfo publish: nothing
\* was sent), "pub_w" (the Welcome publish), "sub" (the subscribe).
create_group(c, peer_id, kps, fail) ==
    IF ~contains_key(kps, peer_id)
    THEN [ok |-> FALSE, drew |-> FALSE, installed |-> FALSE, reqs |-> << >>,
          gid |-> Unknown, group |-> NewGroup(c, Unknown, KeyPackage(c, 0))]
    ELSE LET peer_kp == kps[peer_id]
             gid == <<nextGid + 1>>
             group == NewGroup(c, gid, peer_kp)
             gi == Publish(GITopic(gid), TRUE, GroupInfoOf(group))
             w == Publish(WTopic(peer_id), FALSE, WelcomeOf(group, peer_kp))
             sb == Subscribe(GMTopic(gid))
         IN  [ok |-> NoFault(fail), drew |-> TRUE, installed |-> NoFault(fail),
              reqs |-> CASE fail = "mls" -> << >>
                         [] fail = "pub_w" -> <<gi>>
                         [] fail = "sub" -> <<gi, w>>
                         [] OTHER -> <<gi, w, sb>>,
              gid |-> gid, group |-> group]

CreateFaults == {"none", "mls", "pub_w", "sub"}

\* Mutant of ApplyCreate: a failed create_group drops the peer's group.
ApplyCreate_drop(c, peer_id, r) ==
    /\ outq' = [outq EXCEPT ![c] = @ \o r.reqs]
    /\ nextGid' = IF r.drew THEN nextGid + 1 ELSE nextGid
    /\ group_peers' = IF r.installed
                      THEN [group_peers EXCEPT ![c] = insert(@, r.gid, peer_id)]
                      ELSE group_peers
    /\ groups' = IF r.installed
                 THEN [groups EXCEPT ![c] = insert(@, peer_id, r.group)]
                 ELSE [groups EXCEPT ![c] = [x \in keys(@) \ {peer_id} |-> @[x]]]

\* The effect of a create_group call on the client state.
ApplyCreate(c, peer_id, r) ==
    /\ outq' = [outq EXCEPT ![c] = @ \o r.reqs]
    /\ nextGid' = IF r.drew THEN nextGid + 1 ELSE nextGid
    /\ group_peers' = IF r.installed
                      THEN [group_peers EXCEPT ![c] = insert(@, r.gid, peer_id)]
                      ELSE group_peers
    /\ groups' = IF r.installed
                 THEN [groups EXCEPT ![c] = insert(@, peer_id, r.group)]
                 ELSE groups

\* ------------------------------------------------------- inbound handlers
\* Mutant of Takes: an event whose payload decodes to nothing is never taken
\* from the channel.
Takes_wedged(c, kind) ==
    /\ pc[c] = "run"
    /\ inbox[c] # << >>
    /\ Head(inbox[c]).topic.kind = kind
    /\ Head(inbox[c]).payload # Junk
    /\ inbox' = [inbox EXCEPT ![c] = Tail(@)]

\* The loop takes the event at the head of the channel (rx.try_recv) and
\* dispatches on the topic prefix.
Takes(c, kind) ==
    /\ pc[c] = "run"
    /\ inbox[c] # << >>
    /\ Head(inbox[c]).topic.kind = kind
    /\ inbox' = [inbox EXCEPT ![c] = Tail(@)]

\* Mutant of handle_key_package: the client's own key package is handled like
\* any other.
handle_key_package_no_filter(c, fail) ==
    /\ Takes(c, "k")
    /\ FaultOk(fail)
    /\ LET peer_id == Head(inbox[c]).topic.id
           payload == Head(inbox[c]).payload
           pos == position(pending_connects[c], peer_id)
       IN  IF payload.type # "kp"
           THEN /\ NoFault(fail)
                /\ last' = Ran(c, "handle_key_package", peer_id, "err")
                /\ UNCHANGED << key_packages, groups, group_peers,
                                pending_connects, outq, nextGid >>
           ELSE LET kps == insert(key_packages[c], peer_id, payload.kp) IN
                /\ key_packages' = [key_packages EXCEPT ![c] = kps]
                /\ IF pos # 0
                   THEN LET r == create_group(c, peer_id, kps, fail) IN
                        /\ pending_connects' =
                               [pending_connects EXCEPT ![c] = remove(@, pos)]
                        /\ ApplyCreate(c, peer_id, r)
                        /\ last' = Ran(c, "handle_key_package", peer_id,
                                       IF r.ok THEN "established" ELSE "err")
                   ELSE /\ NoFault(fail)
                        /\ last' = Ran(c, "handle_key_package", peer_id, "stored")
                        /\ UNCHANGED << groups, group_peers, pending_connects,
                                        outq, nextGid >>
    /\ FaultSpent(fail)
    /\ UNCHANGED << pc, kp_store, kp_next, subs, retained, shown, sent, typed, connects, chats, dups >>
    /\ UNCHANGED << relay_vars, facade_vars, seal_vars >>

\* Mutant of handle_key_package: a payload that is no key package still takes
\* the peer out of pending_connects.
handle_key_package_drop_pending(c, fail) ==
    /\ Takes(c, "k")
    /\ FaultOk(fail)
    /\ LET peer_id == Head(inbox[c]).topic.id
           payload == Head(inbox[c]).payload
           pos == position(pending_connects[c], peer_id)
       IN  IF peer_id = c
           THEN /\ NoFault(fail)
                /\ last' = Ran(c, "handle_key_package", peer_id, "self")
                /\ UNCHANGED << key_packages, groups, group_peers,
                                pending_connects, outq, nextGid >>
           ELSE IF payload.type # "kp"
           THEN /\ NoFault(fail)
                /\ last' = Ran(c, "handle_key_package", peer_id, "err")
                /\ pending_connects' =
                       [pending_connects EXCEPT ![c] =
                           IF pos # 0 THEN remove(@, pos) ELSE @]
                /\ UNCHANGED << key_packages, groups, group_peers, outq, nextGid >>
           ELSE LET kps == insert(key_packages[c], peer_id, payload.kp) IN
                /\ key_packages' = [key_packages EXCEPT ![c] = kps]
                /\ IF pos # 0
                   THEN LET r == create_group(c, peer_id, kps, fail) IN
                        /\ pending_connects' =
                               [pending_connects EXCEPT ![c] = remove(@, pos)]
                        /\ ApplyCreate(c, peer_id, r)
                        /\ last' = Ran(c, "handle_key_package", peer_id,
                                       IF r.ok THEN "established" ELSE "err")
                   ELSE /\ NoFault(fail)
                        /\ last' = Ran(c, "handle_key_package", peer_id, "stored")
                        /\ UNCHANGED << groups, group_peers, pending_connects,
                                        outq, nextGid >>
    /\ FaultSpent(fail)
    /\ UNCHANGED << pc, kp_store, kp_next, subs, retained, shown, sent, typed, connects, chats, dups >>
    /\ UNCHANGED << relay_vars, facade_vars, seal_vars >>

handle_key_package(c, fail) ==
    /\ Takes(c, "k")
    /\ FaultOk(fail)
    /\ LET peer_id == Head(inbox[c]).topic.id
           payload == Head(inbox[c]).payload
           pos == position(pending_connects[c], peer_id)
       IN  IF peer_id = c
           THEN /\ NoFault(fail)
                /\ last' = Ran(c, "handle_key_package", peer_id, "self")
                /\ UNCHANGED << key_packages, groups, group_peers,
                                pending_connects, outq, nextGid >>
           ELSE IF payload.type # "kp"
           THEN /\ NoFault(fail)
                /\ last' = Ran(c, "handle_key_package", peer_id, "err")
                /\ UNCHANGED << key_packages, groups, group_peers,
                                pending_connects, outq, nextGid >>
           ELSE LET kps == insert(key_packages[c], peer_id, payload.kp) IN
                /\ key_packages' = [key_packages EXCEPT ![c] = kps]
                /\ IF pos # 0
                   THEN LET r == create_group(c, peer_id, kps, fail) IN
                        /\ pending_connects' =
                               [pending_connects EXCEPT ![c] = remove(@, pos)]
                        /\ ApplyCreate(c, peer_id, r)
                        /\ last' = Ran(c, "handle_key_package", peer_id,
                                       IF r.ok THEN "established" ELSE "err")
                   ELSE /\ NoFault(fail)
                        /\ last' = Ran(c, "handle_key_package", peer_id, "stored")
                        /\ UNCHANGED << groups, group_peers, pending_connects,
                                        outq, nextGid >>
    /\ FaultSpent(fail)
    /\ UNCHANGED << pc, kp_store, kp_next, subs, retained, shown, sent, typed, connects, chats, dups >>
    /\ UNCHANGED << relay_vars, facade_vars, seal_vars >>

\* Mutant of OtherMember: the last member of the group, the client included.
OtherMember_last(c, members) ==
    IF members # << >> THEN members[Len(members)] ELSE Unknown

\* find_map over group.members(): the first member that is not the client.
OtherMember(c, members) ==
    IF \E i \in 1 .. Len(members) : members[i] # c
    THEN members[CHOOSE i \in 1 .. Len(members) :
                     members[i] # c /\ \A j \in 1 .. (i - 1) : members[j] = c]
    ELSE Unknown

WelcomeFaults == {"none", "sub", "pub_k"}

\* fail: "sub" (the subscribe to the group topic), "pub_k" (the publish of the
\* fresh key package, after it was built and stored).
handle_welcome(c, fail) ==
    /\ Takes(c, "w")
    /\ FaultOk(fail)
    /\ LET w == Head(inbox[c]).payload IN
       IF w.type # "welcome" \/ ~CanJoin(c, w)
       THEN /\ NoFault(fail)
            /\ last' = Ran(c, "handle_welcome", Unknown, "err")
            /\ UNCHANGED << groups, group_peers, kp_store, kp_next, outq >>
       ELSE LET group == JoinedGroup(c, w)
                group_id == group.gid
                peer_id == OtherMember(c, group.members)
                used == kp_store[c] \ {w.kp.n}
            IN  IF fail = "sub"
                THEN /\ kp_store' = [kp_store EXCEPT ![c] = used]
                     /\ last' = Ran(c, "handle_welcome", peer_id, "err")
                     /\ UNCHANGED << groups, group_peers, kp_next, outq >>
                ELSE /\ group_peers' = [group_peers EXCEPT ![c] = insert(@, group_id, peer_id)]
                     /\ groups' = [groups EXCEPT ![c] = insert(@, peer_id, group)]
                     /\ kp_store' = [kp_store EXCEPT ![c] = used \cup {kp_next[c]}]
                     /\ kp_next' = [kp_next EXCEPT ![c] = @ + 1]
                     /\ outq' = [outq EXCEPT ![c] =
                                   @ \o <<Subscribe(GMTopic(group_id))>>
                                     \o IF fail = "pub_k" THEN << >>
                                        ELSE <<publish_key_package(c)>>]
                     /\ last' = Ran(c, "handle_welcome", peer_id,
                                    IF NoFault(fail) THEN "established" ELSE "err")
    /\ FaultSpent(fail)
    /\ UNCHANGED << pc, key_packages, pending_connects, subs, retained, nextGid,
                    shown, sent, typed, connects, chats, dups >>
    /\ UNCHANGED << relay_vars, facade_vars, seal_vars >>

handle_group_message(c) ==
    /\ Takes(c, "gm")
    /\ LET group_id == Head(inbox[c]).topic.id
           m == Head(inbox[c]).payload
       IN  IF ~contains_key(group_peers[c], group_id)
           THEN /\ last' = Ran(c, "handle_group_message", Unknown, "Unknown group")
                /\ UNCHANGED << groups, shown >>
           ELSE LET peer_id == group_peers[c][group_id] IN
                IF ~contains_key(groups[c], peer_id)
                THEN /\ last' = Ran(c, "handle_group_message", peer_id, "No group")
                     /\ UNCHANGED << groups, shown >>
                ELSE IF m.type # "app"
                THEN /\ last' = Ran(c, "handle_group_message", peer_id, "err")
                     /\ UNCHANGED << groups, shown >>
                ELSE LET group == groups[c][peer_id]
                         res == ProcessResult(group, m)
                     IN  /\ last' = Ran(c, "handle_group_message", peer_id, res)
                         /\ IF res = "ApplicationMessage"
                            THEN /\ groups' = [groups EXCEPT ![c][peer_id].recvGen = m.gen + 1]
                                 /\ shown' = [shown EXCEPT ![c] =
                                                Append(@, [peer |-> peer_id, gid |-> group_id,
                                                           body |-> m.body])]
                            ELSE UNCHANGED << groups, shown >>
    /\ UNCHANGED << pc, key_packages, group_peers, pending_connects, kp_store,
                    kp_next, outq, subs, retained, nextGid, sent, typed, connects, chats, faults, dups >>
    /\ UNCHANGED << relay_vars, facade_vars, seal_vars >>

\* The dispatch of one inbound event to its handler.
dispatch(c) ==
    \/ \E fail \in CreateFaults : handle_key_package(c, fail)
    \/ \E fail \in WelcomeFaults : handle_welcome(c, fail)
    \/ handle_group_message(c)

\* ----------------------------------------------------------------- commands
\* The loop drains the channel (while let Ok(..) = rx.try_recv()) and only then
\* takes one line from stdin (stdin_rx.try_recv): a command runs when the
\* channel was found empty.
Typed(c) ==
    /\ pc[c] = "run"
    /\ inbox[c] = << >>

ConnectFaults == CreateFaults

\* Mutant of connect_branch: the group map is not consulted.
connect_branch_unchecked(c, peer_id) ==
    IF contains_key(key_packages[c], peer_id) THEN "establish"
    ELSE "pending"

\* Mutant of connect_branch: a peer without key material is treated as known.
connect_branch_no_pending(c, peer_id) ==
    IF contains_key(groups[c], peer_id) THEN "already"
    ELSE "establish"

\* The branch connect(peer_id) takes: the peer has a group, its key package is
\* known, or neither.
connect_branch(c, peer_id) ==
    IF contains_key(groups[c], peer_id) THEN "already"
    ELSE IF contains_key(key_packages[c], peer_id) THEN "establish"
    ELSE "pending"

\* fail: a step of create_group (see there), or "sub" for the subscribe to
\* relay/k/<peer_id> when no key package is known.
connect(c, peer_id, fail) ==
    /\ Typed(c)
    /\ connects > 0
    /\ FaultOk(fail)
    /\ LET branch == connect_branch(c, peer_id) IN
       CASE branch = "already" ->
            /\ NoFault(fail)
            /\ last' = Ran(c, "connect", peer_id, "already")
            /\ UNCHANGED << groups, group_peers, pending_connects, outq, nextGid >>
       [] branch = "establish" ->
            LET r == create_group(c, peer_id, key_packages[c], fail) IN
            /\ ApplyCreate(c, peer_id, r)
            /\ last' = Ran(c, "connect", peer_id,
                           IF r.ok THEN "established" ELSE "err")
            /\ UNCHANGED pending_connects
       [] OTHER ->
            /\ fail \in {"none", "sub"}
            /\ pending_connects' = [pending_connects EXCEPT ![c] = Append(@, peer_id)]
            /\ outq' = [outq EXCEPT ![c] =
                          IF NoFault(fail) THEN Append(@, Subscribe(KTopic(peer_id)))
                          ELSE @]
            /\ last' = Ran(c, "connect", peer_id,
                           IF NoFault(fail) THEN "connecting" ELSE "err")
            /\ UNCHANGED << groups, group_peers, nextGid >>
    /\ connects' = connects - 1
    /\ FaultSpent(fail)
    /\ UNCHANGED << pc, key_packages, kp_store, kp_next, inbox, subs, retained,
                    shown, sent, typed, chats, dups >>
    /\ UNCHANGED << relay_vars, facade_vars, seal_vars >>

\* find_peer: exact match in groups, exact match in key_packages, a unique
\* prefix match in groups, a unique prefix match in key_packages, else an error.
find_peer(c, query) ==
    LET group_matches == {k \in keys(groups[c]) : starts_with(k, query)}
        kp_matches == {k \in keys(key_packages[c]) : starts_with(k, query)}
    IN  IF contains_key(groups[c], query) THEN [ok |-> TRUE, peer |-> query]
        ELSE IF contains_key(key_packages[c], query) THEN [ok |-> TRUE, peer |-> query]
        ELSE IF Cardinality(group_matches) = 1
             THEN [ok |-> TRUE, peer |-> CHOOSE k \in group_matches : TRUE]
        ELSE IF Cardinality(kp_matches) = 1
             THEN [ok |-> TRUE, peer |-> CHOOSE k \in kp_matches : TRUE]
        ELSE [ok |-> FALSE, peer |-> Unknown]

\* What a user can type as <peer_query>: a full id or a one-digit prefix.
Queries == PeerIds \cup {<<id[1]>> : id \in PeerIds}
TypedQueries(c) == typed[c] \cup {<<id[1]>> : id \in typed[c]}

SendFaults == {"none", "mls", "pub"}

\* Mutant of send: the session check is skipped, the message goes out without
\* a group.
send_no_session_check(c, peer_id, text, fail) ==
    /\ Typed(c)
    /\ chats > 0
    /\ text = MaxChats - chats + 1
    /\ FaultOk(fail)
    /\ LET found == find_peer(c, peer_id)
           peer == found.peer
       IN  IF ~found.ok
           THEN /\ NoFault(fail)
                /\ last' = Ran(c, "send", Unknown, "Unknown peer")
                /\ UNCHANGED << groups, outq, sent >>
           ELSE IF ~contains_key(groups[c], peer)
           THEN /\ NoFault(fail)
                /\ outq' = [outq EXCEPT ![c] =
                              Append(@, Publish(GMTopic(Unknown), FALSE, Junk))]
                /\ last' = Ran(c, "send", peer, "ok")
                /\ UNCHANGED << groups, sent >>
           ELSE IF fail = "mls"
           THEN /\ last' = Ran(c, "send", peer, "err")
                /\ UNCHANGED << groups, outq, sent >>
           ELSE LET group == groups[c][peer]
                    group_id == group.gid
                    mls_msg == AppMessage(group, text)
                IN  /\ groups' = [groups EXCEPT ![c][peer].sendGen = @ + 1]
                    /\ IF fail = "pub"
                       THEN /\ last' = Ran(c, "send", peer, "err")
                            /\ UNCHANGED << outq, sent >>
                       ELSE /\ outq' = [outq EXCEPT ![c] =
                                          Append(@, Publish(GMTopic(group_id), FALSE, mls_msg))]
                            /\ sent' = [sent EXCEPT ![c] =
                                          Append(@, [peer |-> peer, gid |-> group_id,
                                                     body |-> text])]
                            /\ last' = Ran(c, "send", peer, "ok")
    /\ chats' = chats - 1
    /\ FaultSpent(fail)
    /\ UNCHANGED << pc, key_packages, group_peers, pending_connects, kp_store,
                    kp_next, inbox, subs, retained, nextGid, shown, typed, connects, dups >>
    /\ UNCHANGED << relay_vars, facade_vars, seal_vars >>

\* fail: "mls" (create_message), "pub" (the publish of the message).
send(c, peer_id, text, fail) ==
    /\ Typed(c)
    /\ chats > 0
    /\ text = MaxChats - chats + 1
    /\ FaultOk(fail)
    /\ LET found == find_peer(c, peer_id)
           peer == found.peer
       IN  IF ~found.ok
           THEN /\ NoFault(fail)
                /\ last' = Ran(c, "send", Unknown, "Unknown peer")
                /\ UNCHANGED << groups, outq, sent >>
           ELSE IF ~contains_key(groups[c], peer)
           THEN /\ NoFault(fail)
                /\ last' = Ran(c, "send", peer, "No session")
                /\ UNCHANGED << groups, outq, sent >>
           ELSE IF fail = "mls"
           THEN /\ last' = Ran(c, "send", peer, "err")
                /\ UNCHANGED << groups, outq, sent >>
           ELSE LET group == groups[c][peer]
                    group_id == group.gid
                    mls_msg == AppMessage(group, text)
                IN  /\ groups' = [groups EXCEPT ![c][peer].sendGen = @ + 1]
                    /\ IF fail = "pub"
                       THEN /\ last' = Ran(c, "send", peer, "err")
                            /\ UNCHANGED << outq, sent >>
                       ELSE /\ outq' = [outq EXCEPT ![c] =
                                          Append(@, Publish(GMTopic(group_id), FALSE, mls_msg))]
                            /\ sent' = [sent EXCEPT ![c] =
                                          Append(@, [peer |-> peer, gid |-> group_id,
                                                     body |-> text])]
                            /\ last' = Ran(c, "send", peer, "ok")
    /\ chats' = chats - 1
    /\ FaultSpent(fail)
    /\ UNCHANGED << pc, key_packages, group_peers, pending_connects, kp_store,
                    kp_next, inbox, subs, retained, nextGid, shown, typed, connects, dups >>
    /\ UNCHANGED << relay_vars, facade_vars, seal_vars >>

\* "info", "peers", an empty line or an unknown command: output only.
print_only(c) ==
    /\ Typed(c)
    /\ UNCHANGED vars

\* "quit" | "exit": the loop breaks and the process ends.
quit(c) ==
    /\ Typed(c)
    /\ pc' = [pc EXCEPT ![c] = "quit"]
    /\ last' = Ran(c, "quit", c, "ok")
    /\ UNCHANGED << key_packages, groups, group_peers, pending_connects, kp_store,
                    kp_next, outq, inbox, subs, retained, nextGid, shown, sent,
                    typed, connects, chats, faults, dups >>
    /\ UNCHANGED << relay_vars, facade_vars, seal_vars >>

\* The outcomes for which the handler or command returned Err and the loop
\* printed "Error: ..."; every other outcome is Ok(()).
Failed(r) ==
    r.res \in {"err", "Unknown group", "No group", "WrongGroupId", "WrongEpoch",
               "SecretReuse", "Unknown peer", "No session"}

\* ------------------------------------------------ relay: MLS messages
\* tls_serialize_detached / tls_deserialize of the MLS messages the sealed
\* payloads and the key bundle carry: a tag byte, then the fields.
SerializeKeyPackage(kp) == <<1>> \o kp.owner \o <<kp.n>>

DeserializeKeyPackage(b) ==
    IF Len(b) = 4 /\ b[1] = 1
    THEN [ok |-> TRUE, kp |-> KeyPackage(<<b[2], b[3]>>, b[4])]
    ELSE [ok |-> FALSE, kp |-> KeyPackage(Unknown, 0)]

\* group.export_ratchet_tree(): the leaves, one credential each; and the tree
\* hash the Welcome's GroupInfo commits to.
RECURSIVE SerializeTree(_)
SerializeTree(members) ==
    IF members = << >> THEN << >> ELSE Head(members) \o SerializeTree(Tail(members))

DeserializeTree(b) ==
    IF b # << >> /\ Len(b) % 2 = 0
    THEN [ok |-> TRUE,
          members |-> [i \in 1 .. (Len(b) \div 2) |-> <<b[2 * i - 1], b[2 * i]>>]]
    ELSE [ok |-> FALSE, members |-> << >>]

TreeHash(b) == SumTo([i \in 1 .. Len(b) |-> i * b[i]], Len(b)) % Prime

\* The Welcome carries no ratchet tree (the group is created without the
\* ratchet-tree extension): the tree travels beside it in the payload.
SerializeWelcome(w) ==
    <<2>> \o w.gid \o <<w.epoch>> \o w.kp.owner
          \o <<w.kp.n, TreeHash(SerializeTree(w.members))>>

DeserializeWelcome(b) ==
    IF Len(b) = 7 /\ b[1] = 2
    THEN [ok |-> TRUE, gid |-> <<b[2]>>, epoch |-> b[3],
          kp |-> KeyPackage(<<b[4], b[5]>>, b[6]), tree_hash |-> b[7]]
    ELSE [ok |-> FALSE, gid |-> Unknown, epoch |-> 0,
          kp |-> KeyPackage(Unknown, 0), tree_hash |-> 0]

SerializeMessage(m) == <<3>> \o m.gid \o <<m.epoch>> \o m.sender \o <<m.gen, m.body>>

DeserializeMessage(b) ==
    IF Len(b) = 7 /\ b[1] = 3
    THEN [ok |-> TRUE,
          m |-> [type |-> "app", gid |-> <<b[2]>>, epoch |-> b[3],
                 sender |-> <<b[4], b[5]>>, gen |-> b[6], body |-> b[7]]]
    ELSE [ok |-> FALSE,
          m |-> [type |-> "none", gid |-> Unknown, epoch |-> 0,
                 sender |-> Unknown, gen |-> 0, body |-> 0]]

\* StagedWelcome::new_from_welcome(backend, config, welcome, ratchet_tree)
\* .into_group(): the private part of the key package must be in the storage
\* and the tree must be the one the Welcome commits to.
StagedWelcome(c, backend, w, tree) ==
    LET t == DeserializeTree(tree) IN
    IF /\ w.kp.owner = c
       /\ w.kp.n \in backend
       /\ t.ok
       /\ TreeHash(tree) = w.tree_hash
    THEN [ok |-> TRUE,
          group |-> [gid |-> w.gid, members |-> t.members, epoch |-> w.epoch,
                     own |-> c, sendGen |-> 0, recvGen |-> 0]]
    ELSE [ok |-> FALSE,
          group |-> [gid |-> Unknown, members |-> << >>, epoch |-> 0,
                     own |-> c, sendGen |-> 0, recvGen |-> 0]]

\* ------------------------------------------------ relay: wire payloads
\* serde_json of PublicBundle, retained on relay/u/<id>/keys.
PublicBundle(key_package, sealed_sender_public_key) ==
    [type |-> "bundle", key_package |-> key_package,
     sealed_sender_public_key |-> sealed_sender_public_key]

\* The CBOR bytes of a sealed envelope, as published on relay/u/<id>/inbox;
\* flipped records whether a byte was changed on the way.
Sealed(envelope) == [type |-> "cbor", bytes |-> EncodeEnvelope(envelope), flipped |-> FALSE]

\* What the random generator returns inside seal_message in these runs.
EphDraw == 2
NonceDraw == 3

\* AsyncClient::new(mqttoptions, 10): the capacity of the request channel
\* between the client handle and the event loop.
RequestCap == 10

\* client.publish(..).await: the request goes into the client's request
\* channel and the call is suspended while the channel is full.
Awaits(c) == Len(outq[c]) < RequestCap

\* ------------------------------------------------ relay: state mutex
\* Mutant of lock: the caller does not wait for the mutex to be free.
lock_unguarded(c, task) ==
    mutex' = [mutex EXCEPT ![c] = task]

\* state.lock().unwrap(): blocks until the mutex is free; the guard is dropped
\* at the end of the scope.
lock(c, task) ==
    /\ mutex[c] = "free"
    /\ mutex' = [mutex EXCEPT ![c] = task]

unlock(c) == mutex' = [mutex EXCEPT ![c] = "free"]

\* ------------------------------------------------ relay: main and commands
\* main(): build the state, publish the key bundle retained, subscribe to the
\* inbox, spawn the event-loop task.
relay_main(c) ==
    /\ pc[c] = "boot"
    /\ pc' = [pc EXCEPT ![c] = "repl"]
    /\ outq' = [outq EXCEPT ![c] = @ \o
                  << Publish(UKeysTopic(c), TRUE,
                             PublicBundle(SerializeKeyPackage(state[c].key_package),
                                          state[c].outer_public)),
                     Subscribe(UInboxTopic(c)) >>]
    /\ last' = Ran(c, "main", c, "ok")
    /\ UNCHANGED << rs_vars, inbox, subs, retained, nextGid, shown, sent, typed,
                    connects, chats, faults, relay_vars, facade_vars, seal_vars >>

RelayConnectFaults == {"none", "sub"}

\* "connect <peer>": client.subscribe(..).await? -- an error leaves main.
relay_connect(c, peer, fail) ==
    /\ pc[c] = "repl"
    /\ command[c].at = "idle"
    /\ connects > 0
    /\ FaultOk(fail)
    /\ connects' = connects - 1
    /\ IF NoFault(fail)
       THEN /\ Awaits(c)
            /\ outq' = [outq EXCEPT ![c] = Append(@, Subscribe(UKeysTopic(peer)))]
            /\ last' = Ran(c, "connect", peer, "ok")
            /\ pc' = pc
       ELSE /\ outq' = outq
            /\ last' = Ran(c, "connect", peer, "err")
            /\ pc' = [pc EXCEPT ![c] = "quit"]
    /\ FaultSpent(fail)
    /\ UNCHANGED << rs_vars, inbox, subs, retained, nextGid, shown, sent, typed,
                    chats, relay_vars, facade_vars, seal_vars >>

\* "info", a usage line, the list of commands: printing only.
relay_print(c) ==
    /\ pc[c] = "repl"
    /\ command[c].at = "idle"
    /\ UNCHANGED vars

\* "chat <peer> <msg>": send_chat takes the state lock (line 423).
send_chat(c, peer, text) ==
    /\ pc[c] = "repl"
    /\ command[c].at = "idle"
    /\ chats > 0
    /\ text = MaxChats - chats + 1
    /\ chats' = chats - 1
    /\ lock(c, "command")
    /\ command' = [command EXCEPT ![c] = [at |-> "has_group", peer |-> peer,
                                          text |-> text, bytes |-> << >>]]
    /\ UNCHANGED << rs_vars, pc, outq, inbox, subs, retained, nextGid, shown, sent,
                    last, typed, connects, faults, state, transport,
                    facade_vars, seal_vars >>

\* send_chat returned Err: the guard is dropped, the REPL prints the error.
SendChatErr(c, res) ==
    /\ unlock(c)
    /\ command' = [command EXCEPT ![c] = Idle]
    /\ last' = Ran(c, "send_chat", command[c].peer, res)

GroupFaults == {"none", "mls"}

\* send_chat, lines 431-484, lock held: without a group for the peer, one is
\* created from the peer's bundle and stored, and the Welcome is sealed.
\* fail: "mls" (key package validation, MlsGroup::new or add_members).
send_chat_group(c, fail) ==
    /\ command[c].at = "has_group"
    /\ FaultOk(fail)
    /\ LET peer == command[c].peer
           g == state[c]
       IN  IF contains_key(g.groups, peer)
           THEN /\ NoFault(fail)
                /\ command' = [command EXCEPT ![c].at = "message"]
                /\ UNCHANGED << state, mutex, outq, nextGid, last >>
           ELSE IF ~contains_key(g.peer_bundles, peer)
           THEN /\ NoFault(fail)
                /\ SendChatErr(c, "Unknown peer")
                /\ UNCHANGED << state, outq, nextGid >>
           ELSE LET bundle == g.peer_bundles[peer]
                    kp_in == DeserializeKeyPackage(bundle.key_package)
                IN  IF ~kp_in.ok \/ fail = "mls"
                    THEN /\ SendChatErr(c, "err")
                         /\ UNCHANGED << state, outq, nextGid >>
                    ELSE LET gid == <<nextGid + 1>>
                             group == NewGroup(c, gid, kp_in.kp)
                             welcome == WelcomeOf(group, kp_in.kp)
                             welcome_inner ==
                                 InnerPayload(3, g.user_id, SerializeWelcome(welcome),
                                              SerializeTree(group.members),
                                              g.outer_public)
                             welcome_sealed ==
                                 seal_message(welcome_inner,
                                              bundle.sealed_sender_public_key,
                                              EphDraw, NonceDraw)
                         IN  /\ nextGid' = nextGid + 1
                             /\ state' = [state EXCEPT ![c].groups = insert(@, peer, group)]
                             /\ outq' = outq
                             /\ IF ~welcome_sealed.ok
                                THEN SendChatErr(c, "err")
                                ELSE /\ command' = [command EXCEPT
                                          ![c].at = "welcome",
                                          ![c].bytes = EncodeEnvelope(welcome_sealed.envelope)]
                                     /\ UNCHANGED << mutex, last >>
    /\ FaultSpent(fail)
    /\ UNCHANGED << rs_vars, pc, inbox, subs, retained, shown, sent, typed,
                    connects, chats, transport, facade_vars, seal_vars >>

PublishFaults == {"none", "pub"}

\* send_chat, lines 485-494, lock held: the sealed Welcome is published to
\* the peer's inbox.
send_chat_welcome(c, fail) ==
    /\ command[c].at = "welcome"
    /\ FaultOk(fail)
    /\ IF NoFault(fail)
       THEN /\ Awaits(c)
            /\ outq' = [outq EXCEPT ![c] = Append(@,
                          Publish(UInboxTopic(command[c].peer), FALSE,
                                  [type |-> "cbor", bytes |-> command[c].bytes,
                                   flipped |-> FALSE]))]
            /\ command' = [command EXCEPT ![c].at = "message", ![c].bytes = << >>]
            /\ UNCHANGED << mutex, last >>
       ELSE /\ SendChatErr(c, "err")
            /\ outq' = outq
    /\ FaultSpent(fail)
    /\ UNCHANGED << rs_vars, pc, inbox, subs, retained, nextGid, shown, sent, typed,
                    connects, chats, state, transport, facade_vars, seal_vars >>

MessageFaults == {"none", "mls"}

\* send_chat, lines 497-521, lock held: the chat line becomes an MLS
\* application message, sealed to the peer's outer key; the guard is dropped.
send_chat_message(c, fail) ==
    /\ command[c].at = "message"
    /\ FaultOk(fail)
    /\ LET peer == command[c].peer
           g == state[c]
           group == g.groups[peer]
           mls_msg_out == AppMessage(group, command[c].text)
           inner == InnerPayload(5, g.user_id, SerializeMessage(mls_msg_out),
                                 << >>, g.outer_public)
           known == contains_key(g.peer_bundles, peer)
                        \/ contains_key(g.peer_outer_keys, peer)
           peer_pk == IF contains_key(g.peer_bundles, peer)
                      THEN g.peer_bundles[peer].sealed_sender_public_key
                      ELSE g.peer_outer_keys[peer]
       IN  IF fail = "mls"
           THEN /\ SendChatErr(c, "err")
                /\ state' = state
           ELSE /\ state' = [state EXCEPT ![c].groups[peer].sendGen = @ + 1]
                /\ IF ~known
                   THEN SendChatErr(c, "No peer public key available")
                   ELSE LET sealed == seal_message(inner, peer_pk, EphDraw, NonceDraw) IN
                        IF ~sealed.ok
                        THEN SendChatErr(c, "err")
                        ELSE /\ unlock(c)
                             /\ command' = [command EXCEPT
                                              ![c].at = "publish",
                                              ![c].bytes = EncodeEnvelope(sealed.envelope)]
                             /\ last' = last
    /\ FaultSpent(fail)
    /\ UNCHANGED << rs_vars, pc, outq, inbox, subs, retained, nextGid, shown, sent,
                    typed, connects, chats, transport, facade_vars, seal_vars >>

\* send_chat, lines 523-533: the sealed message is published to the peer's
\* inbox.
send_chat_publish(c, fail) ==
    /\ command[c].at = "publish"
    /\ FaultOk(fail)
    /\ LET peer == command[c].peer IN
       IF NoFault(fail)
       THEN /\ Awaits(c)
            /\ outq' = [outq EXCEPT ![c] = Append(@,
                          Publish(UInboxTopic(peer), FALSE,
                                  [type |-> "cbor", bytes |-> command[c].bytes,
                                   flipped |-> FALSE]))]
            /\ sent' = [sent EXCEPT ![c] =
                          Append(@, [peer |-> peer, gid |-> state[c].groups[peer].gid,
                                     body |-> command[c].text])]
            /\ last' = Ran(c, "send_chat", peer, "ok")
       ELSE /\ last' = Ran(c, "send_chat", peer, "err")
            /\ UNCHANGED << outq, sent >>
    /\ command' = [command EXCEPT ![c] = Idle]
    /\ FaultSpent(fail)
    /\ UNCHANGED << rs_vars, pc, inbox, subs, retained, nextGid, shown, typed,
                    connects, chats, state, mutex, transport, facade_vars, seal_vars >>

\* ------------------------------------------------ relay: event-loop task
\* eventloop.poll() returned a Publish: the topic decides.  A key bundle that
\* does not parse is skipped.
poll(c) ==
    /\ pc[c] = "repl"
    /\ transport[c].at = "poll"
    /\ inbox[c] # << >>
    /\ LET p == Head(inbox[c]) IN
       /\ inbox' = [inbox EXCEPT ![c] = Tail(@)]
       /\ transport' = [transport EXCEPT ![c] =
             IF p.topic.kind = "inbox"
             THEN [at |-> "inbox_lock", topic |-> p.topic, payload |-> p.payload,
                   inner |-> NoPayload]
             ELSE IF p.topic.kind = "keys" /\ p.payload.type = "bundle"
             THEN [at |-> "keys_lock", topic |-> p.topic, payload |-> p.payload,
                   inner |-> NoPayload]
             ELSE [at |-> "poll", topic |-> p.topic, payload |-> p.payload,
                   inner |-> NoPayload]]
    /\ UNCHANGED << rs_vars, pc, outq, subs, retained, nextGid, shown, sent, last,
                    typed, connects, chats, faults, state, mutex, command,
                    facade_vars, seal_vars >>

\* eventloop.poll() takes the next request from the request channel and sends
\* it to the broker: only while the task is inside poll.
poll_request(c) ==
    /\ pc[c] = "repl"
    /\ transport[c].at = "poll"
    /\ BrokerRecv(c)

\* The three places where the task takes the state lock: process_inbox lines
\* 328 and 335, and the key-bundle branch, line 268.
LockSites == [inbox_lock |-> "inbox_secret", inbox_relock |-> "inbox_apply",
              keys_lock |-> "keys_insert"]

transport_lock(c) ==
    /\ transport[c].at \in DOMAIN LockSites
    /\ lock(c, "transport")
    /\ transport' = [transport EXCEPT ![c].at = LockSites[transport[c].at]]
    /\ UNCHANGED << rs_vars, mqtt_vars, state, command, facade_vars, seal_vars >>

\* process_inbox, lines 327-333: read the outer secret under the lock, drop
\* the guard, decode the envelope and unseal it.
process_inbox_unseal(c) ==
    /\ transport[c].at = "inbox_secret"
    /\ unlock(c)
    /\ LET my_secret == state[c].outer_secret
           payload == transport[c].payload
           envelope == IF payload.type = "cbor" THEN DecodeEnvelope(payload.bytes)
                       ELSE [ok |-> FALSE, envelope |-> NoEnvelope]
           inner == unseal_message(envelope.envelope, my_secret)
       IN  IF ~envelope.ok
           THEN /\ last' = Ran(c, "process_inbox", Unknown, "Decode")
                /\ transport' = [transport EXCEPT ![c].at = "poll"]
           ELSE IF ~inner.ok
           THEN /\ last' = Ran(c, "process_inbox", Unknown, inner.err)
                /\ transport' = [transport EXCEPT ![c].at = "poll"]
           ELSE /\ last' = last
                /\ transport' = [transport EXCEPT ![c].at = "inbox_relock",
                                                  ![c].inner = inner.payload]
    /\ UNCHANGED << rs_vars, pc, outq, inbox, subs, retained, nextGid, shown, sent,
                    typed, connects, chats, faults, state, command,
                    facade_vars, seal_vars >>

\* process_inbox, lines 335-412, lock held: the sender's outer key is stored
\* under the sender_user_id of the payload, then the message type decides.
process_inbox_apply(c) ==
    /\ transport[c].at = "inbox_apply"
    /\ unlock(c)
    /\ transport' = [transport EXCEPT ![c].at = "poll"]
    /\ LET inner == transport[c].inner
           sender == inner.sender_user_id
           g == IF inner.sender_outer_public_key # << >>
                THEN [state[c] EXCEPT !.peer_outer_keys =
                         insert(@, sender, inner.sender_outer_public_key)]
                ELSE state[c]
           Done(g2, res) ==
               /\ state' = [state EXCEPT ![c] = g2]
               /\ last' = Ran(c, "process_inbox", sender, res)
       IN  IF inner.msg_type = 3
           THEN LET welcome == DeserializeWelcome(inner.content)
                    staged == StagedWelcome(c, g.backend, welcome, inner.ratchet_tree)
                IN  IF ~welcome.ok \/ ~staged.ok
                    THEN Done(g, "err") /\ shown' = shown
                    ELSE /\ Done([g EXCEPT !.backend = @ \ {welcome.kp.n},
                                           !.groups = insert(@, sender, staged.group)],
                                 "established")
                         /\ shown' = shown
           ELSE IF inner.msg_type = 5
           THEN IF ~contains_key(g.groups, sender)
                THEN Done(g, "No Group") /\ shown' = shown
                ELSE LET msg_in == DeserializeMessage(inner.content)
                         group == g.groups[sender]
                         res == ProcessResult(group, msg_in.m)
                     IN  IF ~msg_in.ok
                         THEN Done(g, "err") /\ shown' = shown
                         ELSE IF res # "ApplicationMessage"
                         THEN Done(g, res) /\ shown' = shown
                         ELSE /\ Done([g EXCEPT !.groups[sender].recvGen = msg_in.m.gen + 1],
                                      "ok")
                              /\ shown' = [shown EXCEPT ![c] =
                                             Append(@, [peer |-> sender, gid |-> group.gid,
                                                        body |-> msg_in.m.body])]
           ELSE Done(g, "Unknown Type") /\ shown' = shown
    /\ UNCHANGED << rs_vars, pc, outq, inbox, subs, retained, nextGid, sent, typed,
                    connects, chats, faults, command, facade_vars, seal_vars >>

\* The key-bundle branch, lines 263-272, lock held: the bundle is stored under
\* the id in the topic.
key_bundle_insert(c) ==
    /\ transport[c].at = "keys_insert"
    /\ unlock(c)
    /\ state' = [state EXCEPT ![c].peer_bundles =
                    insert(@, transport[c].topic.id,
                           [key_package |-> transport[c].payload.key_package,
                            sealed_sender_public_key |->
                                transport[c].payload.sealed_sender_public_key])]
    /\ transport' = [transport EXCEPT ![c].at = "poll"]
    /\ last' = Ran(c, "keys", transport[c].topic.id, "ok")
    /\ UNCHANGED << rs_vars, pc, outq, inbox, subs, retained, nextGid, shown, sent,
                    typed, connects, chats, faults, command, facade_vars, seal_vars >>

\* ------------------------------------------------ relay: the open broker
\* The longest sealed envelope on the wire, in bytes: the one with a Welcome.
MaxEnvelope == 27

\* A byte of the encrypted_payload of the sealed envelope at the head of c's
\* incoming packets is changed on the way.  It counts as one of the run's
\* errors.
FlipInbox(c, i) ==
    /\ faults > 0
    /\ inbox[c] # << >>
    /\ LET p == Head(inbox[c]) IN
       /\ p.payload.type = "cbor"
       /\ ~p.payload.flipped
       /\ i > KeyLen + 3
       /\ i < Len(p.payload.bytes)
       /\ inbox' = [inbox EXCEPT ![c] =
                      << [p EXCEPT !.payload.bytes[i] = (@ + 1) % Prime,
                                   !.payload.flipped = TRUE] >> \o Tail(@)]
    /\ faults' = faults - 1
    /\ UNCHANGED << rs_vars, pc, outq, subs, retained, nextGid, shown, sent, last,
                    typed, connects, chats, relay_vars, facade_vars, seal_vars >>

\* Any broker client can fetch a retained key bundle and publish to an inbox:
\* the holder of the identity IdC builds a group with b's key package and
\* sends b the Welcome, sealed to b's outer key, with a sender_user_id of its
\* choice.  It counts as one of the run's errors.
ForeignWelcome(b, claimed) ==
    /\ faults > 0
    /\ pc[b] = "repl"
    /\ UInboxTopic(b) \in subs[b]
    /\ contains_key(retained, UKeysTopic(b))
    /\ LET bundle == retained[UKeysTopic(b)]
           kp_in == DeserializeKeyPackage(bundle.key_package)
           group == NewGroup(IdC, <<nextGid + 1>>, kp_in.kp)
           inner == InnerPayload(3, claimed,
                                 SerializeWelcome(WelcomeOf(group, kp_in.kp)),
                                 SerializeTree(group.members), OuterPublic(IdC))
           sealed == seal_message(inner, bundle.sealed_sender_public_key,
                                  EphDraw, NonceDraw)
       IN  /\ kp_in.ok /\ sealed.ok
           /\ inbox' = [inbox EXCEPT ![b] =
                          Append(@, Event(UInboxTopic(b), Sealed(sealed.envelope)))]
    /\ nextGid' = nextGid + 1
    /\ faults' = faults - 1
    /\ UNCHANGED << rs_vars, pc, outq, subs, retained, shown, sent, last, typed,
                    connects, chats, relay_vars, facade_vars, seal_vars >>

\* ------------------------------------------------ swift-openmls: RelayMlsClient
\* The facade's clients, one per identity.  The bytes a call returns go to
\* returned: the application carries them to any call of any client.
MaxKeyPackages == 1   \* create_key_package calls of one client
MaxGroups == 1        \* create_group calls in one run, all clients
MaxEncrypts == 1      \* encrypt calls in one run, all clients

\* ciborium::into_writer(&vec![kp_bytes]): a CBOR array of one byte string.
EncodeKeyPackageArray(kp_bytes) == <<1>> \o Bstr(kp_bytes)

DecodeKeyPackageArray(b) ==
    IF Len(b) >= 2 /\ b[1] = 1 /\ b[2] = Len(b) - 2
    THEN [ok |-> TRUE, first |-> SubSeq(b, 3, Len(b))]
    ELSE [ok |-> FALSE, first |-> << >>]

\* A group of the facade: created with the ratchet-tree extension, so its
\* Welcome carries the tree; recv holds, per sender, the next generation of the
\* current epoch.
FacadeGroup(c, gid, members, epoch) ==
    [gid |-> gid, members |-> members, epoch |-> epoch, own |-> c,
     sendGen |-> 0, recv |-> EmptyMap]

\* tls_serialize_detached of the Welcome and of the commit of add_members.
SerializeTreeWelcome(gid, epoch, kp, members) ==
    <<2>> \o gid \o <<epoch>> \o kp.owner \o <<kp.n>> \o SerializeTree(members)

DeserializeTreeWelcome(b) ==
    IF Len(b) > 6 /\ b[1] = 2 /\ DeserializeTree(SubSeq(b, 7, Len(b))).ok
    THEN [ok |-> TRUE, gid |-> <<b[2]>>, epoch |-> b[3],
          kp |-> KeyPackage(<<b[4], b[5]>>, b[6]),
          members |-> DeserializeTree(SubSeq(b, 7, Len(b))).members]
    ELSE [ok |-> FALSE, gid |-> Unknown, epoch |-> 0,
          kp |-> KeyPackage(Unknown, 0), members |-> << >>]

SerializeCommit(gid, epoch, sender, added) ==
    <<4>> \o gid \o <<epoch>> \o sender \o added

DeserializeCommit(b) ==
    IF Len(b) = 7 /\ b[1] = 4
    THEN [ok |-> TRUE, gid |-> <<b[2]>>, epoch |-> b[3],
          sender |-> <<b[4], b[5]>>, added |-> <<b[6], b[7]>>]
    ELSE [ok |-> FALSE, gid |-> Unknown, epoch |-> 0, sender |-> Unknown,
          added |-> Unknown]

\* A call that changes nothing and returns an error counts as one of the
\* run's errors.
FacadeReturns ==
    LET fail == IF last'.res \in {"ok", "InvalidInput"} THEN "none" ELSE last'.res
    IN  FaultOk(fail) /\ FaultSpent(fail)

FacadeUnchanged ==
    UNCHANGED << rs_vars, pc, outq, inbox, subs, retained, shown, sent, typed,
                 connects, relay_vars, seal_vars >>

\* RelayMlsClient::create_key_package
RelayMlsClient_create_key_package(c) ==
    /\ mls[c].built < MaxKeyPackages
    /\ LET n == mls[c].built + 1 IN
       /\ mls' = [mls EXCEPT ![c].built = n, ![c].backend = @ \cup {n}]
       /\ returned' = returned \cup
             {EncodeKeyPackageArray(SerializeKeyPackage(KeyPackage(c, n)))}
    /\ last' = Ran(c, "create_key_package", c, "ok")
    /\ nextGid' = nextGid
    /\ chats' = chats
    /\ FacadeReturns
    /\ FacadeUnchanged

\* RelayMlsClient::create_group: a fresh random group id, the creator alone.
RelayMlsClient_create_group(c) ==
    /\ nextGid < MaxGroups
    /\ nextGid' = nextGid + 1
    /\ mls' = [mls EXCEPT ![c].groups =
                 insert(@, <<nextGid + 1>>, FacadeGroup(c, <<nextGid + 1>>, <<c>>, 0))]
    /\ last' = Ran(c, "create_group", c, "ok")
    /\ returned' = returned
    /\ chats' = chats
    /\ FacadeReturns
    /\ FacadeUnchanged

\* group.add_members(.., &[key_package]) and merge_pending_commit: the leaf is
\* added and the epoch advances; a key package of a present member is refused.
add_members(group, kp) ==
    IF kp.owner \in Range(group.members)
    THEN [ok |-> FALSE, group |-> group]
    ELSE [ok |-> TRUE,
          group |-> FacadeGroup(group.own, group.gid,
                                Append(group.members, kp.owner), group.epoch + 1)]

\* RelayMlsClient::add_member
RelayMlsClient_add_member(c, group_id, key_package_bytes) ==
    /\ LET kp_array == DecodeKeyPackageArray(key_package_bytes)
           key_package == DeserializeKeyPackage(kp_array.first)
       IN  IF ~kp_array.ok \/ ~key_package.ok
           THEN /\ last' = Ran(c, "add_member", Unknown, "SerializationError")
                /\ UNCHANGED << mls, returned >>
           ELSE IF ~contains_key(mls[c].groups, group_id)
           THEN /\ last' = Ran(c, "add_member", key_package.kp.owner, "GroupNotFound")
                /\ UNCHANGED << mls, returned >>
           ELSE LET group == mls[c].groups[group_id]
                    added == add_members(group, key_package.kp)
                IN  IF ~added.ok
                    THEN /\ last' = Ran(c, "add_member", key_package.kp.owner, "MlsError")
                         /\ UNCHANGED << mls, returned >>
                    ELSE /\ mls' = [mls EXCEPT ![c].groups[group_id] = added.group]
                         /\ returned' = returned \cup
                               { SerializeTreeWelcome(group.gid, added.group.epoch,
                                                      key_package.kp, added.group.members),
                                 SerializeCommit(group.gid, group.epoch, c,
                                                 key_package.kp.owner) }
                         /\ last' = Ran(c, "add_member", key_package.kp.owner, "ok")
    /\ nextGid' = nextGid
    /\ chats' = chats
    /\ FacadeReturns
    /\ FacadeUnchanged

\* RelayMlsClient::join_from_welcome: the group is stored under its own id.
RelayMlsClient_join_from_welcome(c, welcome_bytes) ==
    /\ LET welcome == DeserializeTreeWelcome(welcome_bytes) IN
       IF ~welcome.ok
       THEN /\ last' = Ran(c, "join_from_welcome", Unknown, "SerializationError")
            /\ mls' = mls
       ELSE IF ~(welcome.kp.owner = c /\ welcome.kp.n \in mls[c].backend)
       THEN /\ last' = Ran(c, "join_from_welcome", Unknown, "MlsError")
            /\ mls' = mls
       ELSE /\ mls' = [mls EXCEPT
                         ![c].backend = @ \ {welcome.kp.n},
                         ![c].groups = insert(@, welcome.gid,
                                              FacadeGroup(c, welcome.gid, welcome.members,
                                                          welcome.epoch))]
            /\ last' = Ran(c, "join_from_welcome", welcome.members[1], "ok")
    /\ UNCHANGED << returned, nextGid >>
    /\ chats' = chats
    /\ FacadeReturns
    /\ FacadeUnchanged

\* RelayMlsClient::encrypt
RelayMlsClient_encrypt(c, group_id, plaintext) ==
    /\ IF ~contains_key(mls[c].groups, group_id)
       THEN /\ last' = Ran(c, "encrypt", Unknown, "GroupNotFound")
            /\ UNCHANGED << mls, returned >>
       ELSE LET group == mls[c].groups[group_id] IN
            /\ chats > 0
            /\ mls' = [mls EXCEPT ![c].groups[group_id].sendGen = @ + 1]
            /\ returned' = returned \cup {SerializeMessage(AppMessage(group, plaintext))}
            /\ last' = Ran(c, "encrypt", c, "ok")
    /\ chats' = IF last'.res = "ok" THEN chats - 1 ELSE chats
    /\ nextGid' = nextGid
    /\ FacadeReturns
    /\ FacadeUnchanged

\* RelayMlsClient::decrypt: an application message advances the sender's
\* ratchet; a commit is merged and reported as an error.
RelayMlsClient_decrypt(c, group_id, ciphertext) ==
    /\ IF ~contains_key(mls[c].groups, group_id)
       THEN /\ last' = Ran(c, "decrypt", Unknown, "GroupNotFound")
            /\ mls' = mls
       ELSE LET group == mls[c].groups[group_id]
                app == DeserializeMessage(ciphertext)
                commit == DeserializeCommit(ciphertext)
                Fresh(m) ==
                    /\ m.gid = group.gid
                    /\ m.epoch = group.epoch
                    /\ m.sender # c
                    /\ m.sender \in Range(group.members)
            IN  IF app.ok
                THEN IF /\ Fresh(app.m)
                        /\ ~contains_key(group.recv, app.m.sender)
                              \/ group.recv[app.m.sender] <= app.m.gen
                     THEN /\ mls' = [mls EXCEPT ![c].groups[group_id].recv =
                                       insert(@, app.m.sender, app.m.gen + 1)]
                          /\ last' = Ran(c, "decrypt", app.m.sender, "ok")
                     ELSE /\ mls' = mls
                          /\ last' = Ran(c, "decrypt", app.m.sender, "MlsError")
                ELSE IF commit.ok
                THEN IF Fresh(commit) /\ commit.added \notin Range(group.members)
                     THEN /\ mls' = [mls EXCEPT ![c].groups[group_id] =
                                       FacadeGroup(c, group.gid,
                                                   Append(group.members, commit.added),
                                                   group.epoch + 1)]
                          /\ last' = Ran(c, "decrypt", commit.sender, "InvalidInput")
                     ELSE /\ mls' = mls
                          /\ last' = Ran(c, "decrypt", commit.sender, "MlsError")
                ELSE /\ mls' = mls
                     /\ last' = Ran(c, "decrypt", Unknown, "SerializationError")
    /\ UNCHANGED << returned, nextGid >>
    /\ chats' = chats
    /\ FacadeReturns
    /\ FacadeUnchanged

\* ------------------------------------------------- seal / unseal round
MaxContent == 2   \* bytes of content in a sealed payload

ContentBytes == {0, 7}
Contents == UNION {[1 .. n -> ContentBytes] : n \in 0 .. MaxContent}
Payloads ==
    {InnerPayload(t, IdA, content, << >>, OuterPublic(IdA)) :
        t \in {3, 5}, content \in Contents}
Nonces == {0, 7}

\* seal_message(&payload, &peer_public_bytes) for the recipient's public key.
Seal ==
    /\ ret.at = "none"
    /\ LET r == seal_message(args.payload, <<mul_base(args.outer_secret)>>,
                             args.eph_sec, args.nonce)
       IN  /\ r.ok
           /\ ret' = [ret EXCEPT !.at = "sealed", !.sealed = r.envelope,
                                 !.envelope = r.envelope]
    /\ UNCHANGED << rs_vars, mqtt_vars, relay_vars, facade_vars, args >>

EnvelopeFields == {"ephemeral_public_key", "encrypted_payload"}

\* One byte of the envelope is changed on the way.
Flip(f, i, v) ==
    /\ ret.at = "sealed"
    /\ ret.changed = "no"
    /\ i \in 1 .. Len(ret.envelope[f])
    /\ v # ret.envelope[f][i]
    /\ ret' = [ret EXCEPT !.envelope[f][i] = v, !.changed = f]
    /\ UNCHANGED << rs_vars, mqtt_vars, relay_vars, facade_vars, args >>

FlipNonce(v) ==
    /\ ret.at = "sealed"
    /\ ret.changed = "no"
    /\ v # ret.envelope.pow_nonce
    /\ ret' = [ret EXCEPT !.envelope.pow_nonce = v, !.changed = "pow_nonce"]
    /\ UNCHANGED << rs_vars, mqtt_vars, relay_vars, facade_vars, args >>

\* A field of the envelope is cut short on the way.
Cut(f, n) ==
    /\ ret.at = "sealed"
    /\ ret.changed = "no"
    /\ n < Len(ret.envelope[f])
    /\ ret' = [ret EXCEPT !.envelope[f] = SubSeq(@, 1, n), !.changed = "length"]
    /\ UNCHANGED << rs_vars, mqtt_vars, relay_vars, facade_vars, args >>

\* unseal_message(&envelope, my_secret)
Unseal ==
    /\ ret.at = "sealed"
    /\ ret' = [ret EXCEPT !.at = "unsealed",
                          !.out = unseal_message(ret.envelope, args.my_secret)]
    /\ UNCHANGED << rs_vars, mqtt_vars, relay_vars, facade_vars, args >>

\* ------------------------------------------------------------ specification
Next ==
    \E c \in Clients :
        \/ Boot(c)
        \/ BrokerRecv(c)
        \/ \E fail \in CreateFaults : handle_key_package(c, fail)
        \/ \E fail \in WelcomeFaults : handle_welcome(c, fail)
        \/ handle_group_message(c)
        \/ \E peer_id \in typed[c], fail \in ConnectFaults : connect(c, peer_id, fail)
        \/ \E q \in TypedQueries(c), text \in Texts, fail \in SendFaults : send(c, q, text, fail)
        \/ print_only(c)

Spec == Init /\ [][Next]_vars

\* The same run with transport and MLS errors.
InitFault == Start([c \in Clients |-> Clients \ {c}], MaxConnects, MaxChats, MaxFaults, 0)

SpecFault == InitFault /\ [][Next]_vars

\* The broker serves every client's requests and every main loop keeps
\* draining its channel; what the users type is not forced.
Fairness ==
    \A c \in Clients :
        /\ WF_vars(Boot(c))
        /\ WF_vars(BrokerRecv(c))
        /\ WF_vars(\E fail \in CreateFaults : handle_key_package(c, fail))
        /\ WF_vars(\E fail \in WelcomeFaults : handle_welcome(c, fail))
        /\ WF_vars(handle_group_message(c))

SpecLive == Init /\ [][Next]_vars /\ Fairness

\* The same with "quit" among the commands.
NextLoop == Next \/ \E c \in Clients : quit(c)

SpecLoop == Init /\ [][NextLoop]_vars

\* The handshake alone: the users type connect and nothing else, for any of
\* the three ids, their own included.
NextHandshake ==
    \E c \in Clients :
        \/ Boot(c)
        \/ BrokerRecv(c)
        \/ \E fail \in CreateFaults : handle_key_package(c, fail)
        \/ \E fail \in WelcomeFaults : handle_welcome(c, fail)
        \/ \E peer_id \in typed[c], fail \in ConnectFaults : connect(c, peer_id, fail)

InitHandshake == Start([c \in Clients |-> PeerIds], MaxConnects, 0, 0, 0)

SpecHandshake == InitHandshake /\ [][NextHandshake]_vars

\* The handshake with transport and MLS errors.
InitHandshakeFault == Start([c \in Clients |-> PeerIds], MaxConnects, 0, MaxFaults, 0)

SpecHandshakeFault == InitHandshakeFault /\ [][NextHandshake]_vars

FairnessHandshake ==
    \A c \in Clients :
        /\ WF_vars(Boot(c))
        /\ WF_vars(BrokerRecv(c))
        /\ WF_vars(\E fail \in CreateFaults : handle_key_package(c, fail))
        /\ WF_vars(\E fail \in WelcomeFaults : handle_welcome(c, fail))

SpecHandshakeLive == InitHandshake /\ [][NextHandshake]_vars /\ FairnessHandshake

\* The topics some client is subscribed to.
SubscribedTopics == UNION {subs[c] : c \in Clients}

\* The handshake with transport and MLS errors and with foreign publishes.
NextHandshakeWire ==
    \/ NextHandshake
    \/ \E topic \in SubscribedTopics : ForeignPublish(topic)

\* The user of IdA types connect for IdB and for the own id, the user of IdB
\* for IdA.
InitHandshakeWire ==
    Start([c \in Clients |-> IF c = IdA THEN Clients ELSE {IdA}],
          MaxConnects, 0, MaxFaults, 0)

SpecHandshakeWire == InitHandshakeWire /\ [][NextHandshakeWire]_vars

\* One user at the keyboard: the user of IdA connects to and chats with IdB,
\* the user of IdB types nothing; with transport and MLS errors.
InitChat ==
    Start([c \in Clients |-> IF c = IdA THEN {IdB} ELSE {}],
          MaxConnects, MaxChats, MaxFaults, 0)

SpecChat == InitChat /\ [][Next]_vars

\* The whole loop: every command, "quit" included, every handler, transport
\* and MLS errors, foreign publishes and redeliveries; the user of IdA connects
\* to and chats with IdB.
NextLoopWire ==
    \/ NextLoop
    \/ \E topic \in SubscribedTopics : ForeignPublish(topic)
    \/ \E c \in Clients : Redeliver(c)

InitLoopWire ==
    Start([c \in Clients |-> IF c = IdA THEN {IdB} ELSE {}],
          MaxConnects, MaxChats, MaxFaults, MaxDups)

SpecLoopWire == InitLoopWire /\ [][NextLoopWire]_vars

\* Both users connect to and chat with the other one and events are
\* redelivered; no transport or MLS error.
NextDup ==
    \/ Next
    \/ \E c \in Clients : Redeliver(c)

InitDup == Start([c \in Clients |-> Clients \ {c}], MaxConnects, MaxChats, 0, MaxDups)

SpecDup == InitDup /\ [][NextDup]_vars

\* The same with a fair broker and fair event loops.
SpecDupLive == InitDup /\ [][NextDup]_vars /\ Fairness

\* One seal_message / unseal_message round on its own: every payload, every
\* outer key pair, every ephemeral scalar, and any secret for the unsealing;
\* the envelope may be changed in one place between the two calls.
InitSeal ==
    \E p \in Payloads, sk \in Scalars, eph \in Scalars, n \in Nonces, my \in Scalars :
        StartWith([c \in Clients |-> {}], 0, 0, 0, 0, Call(p, sk, eph, n, my))

NextSeal ==
    \/ Seal
    \/ \E f \in EnvelopeFields, i \in 1 .. (MaxContent + 12), v \in Byte : Flip(f, i, v)
    \/ \E v \in Byte : FlipNonce(v)
    \/ \E f \in EnvelopeFields, n \in 0 .. (MaxContent + 11) : Cut(f, n)
    \/ Unseal

SpecSeal == InitSeal /\ [][NextSeal]_vars

\* The relay client with the state mutex and sealed envelopes: the user of
\* IdA connects to and chats with IdB; transport and MLS errors, one byte of a
\* sealed envelope changed on the way, a Welcome from a third identity.
NextRelay ==
    \/ \E c \in Clients : poll_request(c)
    \/ \E c \in Clients : relay_main(c)
    \/ \E c \in Clients : \E peer \in typed[c], fail \in RelayConnectFaults :
           relay_connect(c, peer, fail)
    \/ \E c \in Clients : relay_print(c)
    \/ \E c \in Clients : \E peer \in typed[c], text \in Texts : send_chat(c, peer, text)
    \/ \E c \in Clients, fail \in GroupFaults : send_chat_group(c, fail)
    \/ \E c \in Clients, fail \in PublishFaults : send_chat_welcome(c, fail)
    \/ \E c \in Clients, fail \in MessageFaults : send_chat_message(c, fail)
    \/ \E c \in Clients, fail \in PublishFaults : send_chat_publish(c, fail)
    \/ \E c \in Clients : poll(c)
    \/ \E c \in Clients : transport_lock(c)
    \/ \E c \in Clients : process_inbox_unseal(c)
    \/ \E c \in Clients : process_inbox_apply(c)
    \/ \E c \in Clients : key_bundle_insert(c)
    \/ \E c \in Clients, i \in 1 .. MaxEnvelope : FlipInbox(c, i)
    \/ \E b \in Clients : \E claimed \in PeerIds \ {b} : ForeignWelcome(b, claimed)

InitRelay ==
    Start([c \in Clients |-> IF c = IdA THEN {IdB} ELSE {}],
          MaxConnects, MaxChats, MaxFaults, 0)

SpecRelay == InitRelay /\ [][NextRelay]_vars

\* Both realizations side by side: each of the two processes runs the main
\* of relay-rs or the main of relay.
NextOwner == Next \/ NextRelay

SpecOwner == InitChat /\ [][NextOwner]_vars

\* The swift-openmls facade on its own: three clients, any call with any of
\* the bytes returned so far.
GroupIds == {<<g>> : g \in 1 .. MaxGroups}

NextFacade ==
    \E c \in PeerIds :
        \/ RelayMlsClient_create_key_package(c)
        \/ RelayMlsClient_create_group(c)
        \/ \E group_id \in GroupIds, bytes \in returned :
               RelayMlsClient_add_member(c, group_id, bytes)
        \/ \E bytes \in returned : RelayMlsClient_join_from_welcome(c, bytes)
        \/ \E group_id \in GroupIds : RelayMlsClient_encrypt(c, group_id, 1)
        \/ \E group_id \in GroupIds, bytes \in returned :
               RelayMlsClient_decrypt(c, group_id, bytes)

InitFacade == Start([c \in Clients |-> {}], 0, MaxEncrypts, MaxFaults, 0)

SpecFacade == InitFacade /\ [][NextFacade]_vars

\* The loop of one user at the keyboard, who types connect and then "quit",
\* while a foreign publisher keeps publishing.  The broker and the handlers of
\* each loop are fair, and the line that waits on stdin is dispatched if the
\* loop finds its channel empty again and again.
NextStarve ==
    \/ NextHandshake
    \/ \E c \in Clients : handle_group_message(c)
    \/ \E c \in Clients : quit(c)
    \/ \E topic \in SubscribedTopics : Flood(topic)

InitStarve ==
    Start([c \in Clients |-> IF c = IdA THEN {IdB} ELSE {}], MaxConnects, 0, 0, 0)

SpecStarve ==
    InitStarve /\ [][NextStarve]_vars /\ Fairness /\ \A c \in Clients : SF_vars(quit(c))

\* Both users connect to the other one, and no user repeats a connect that is
\* still pending.
NextCross ==
    \E c \in Clients :
        \/ Boot(c)
        \/ BrokerRecv(c)
        \/ \E fail \in CreateFaults : handle_key_package(c, fail)
        \/ \E fail \in WelcomeFaults : handle_welcome(c, fail)
        \/ handle_group_message(c)
        \/ /\ pending_connects[c] = << >>
           /\ \E peer_id \in typed[c], fail \in ConnectFaults : connect(c, peer_id, fail)
        \/ \E q \in TypedQueries(c), text \in Texts, fail \in SendFaults : send(c, q, text, fail)
        \/ print_only(c)

SpecCross == Init /\ [][NextCross]_vars

\* ==================================================================== claims

\* Both sides hold a group for the other one.
SessionReady(a, b) == contains_key(groups[a], b) /\ contains_key(groups[b], a)

\* C2 -- Handshake safety: whenever two clients each hold a group for the
\* other, both groups have the same member set, exactly the two client ids.
C2_HandshakeSafety ==
    \A a \in Clients : \A b \in Clients \ {a} :
        SessionReady(a, b) =>
            /\ Range(groups[a][b].members) = {a, b}
            /\ Range(groups[b][a].members) = {a, b}

\* C2 witness: A's connect B handshake is complete, both hold the same group.
C2_Witness ==
    /\ SessionReady(IdA, IdB)
    /\ groups[IdA][IdB].gid = groups[IdB][IdA].gid
    /\ groups[IdA][IdB].members[1] = IdA

\* C4 -- SessionReady is terminal: a peer id that has an entry in the group
\* map of a client has one after every step, failing handlers included.
C4_SessionReadyTerminal ==
    [][\A c \in Clients : keys(groups[c]) \subseteq keys(groups'[c])]_vars

\* C4 witness: handling a key package failed in create_group for a peer that
\* has a group, and the group is still there.
C4_Witness ==
    /\ last.op = "handle_key_package"
    /\ last.res = "err"
    /\ contains_key(groups[last.c], last.peer)

\* C5 -- GroupIndex bijection: every index entry g -> p has groups[p] with
\* group id g, every group has exactly one index entry, and no two index
\* entries name the same peer.
C5_GroupIndexBijection ==
    \A c \in Clients :
        /\ \A g \in keys(group_peers[c]) :
              /\ contains_key(groups[c], group_peers[c][g])
              /\ groups[c][group_peers[c][g]].gid = g
        /\ \A p \in keys(groups[c]) :
              Cardinality({g \in keys(group_peers[c]) : group_peers[c][g] = p}) = 1

\* C6 -- Peer record exclusivity: no peer id is in both the key-package map
\* and the group map of a client.
C6_PeerRecordExclusive ==
    \A c \in Clients : keys(key_packages[c]) \cap keys(groups[c]) = {}

\* C7 -- PendingConnect meaning: no peer id in pending_connects is also in
\* the key-package map or the group map.
C7_PendingMeansNoKeyPackage ==
    \A c \in Clients :
        Range(pending_connects[c]) \cap (keys(key_packages[c]) \cup keys(groups[c])) = {}

\* The texts of the log entries about peer p, in order.
TextsAbout(log, p) ==
    LET About(e) == e.peer = p
        picked == SelectSeq(log, About)
    IN  [i \in 1 .. Len(picked) |-> picked[i].body]

IsPrefix(s, t) == Len(s) <= Len(t) /\ SubSeq(t, 1, Len(s)) = s

\* C3 -- Message round-trip: what B has displayed from A is, in order and
\* without a gap, what A has sent to B: each message A sends is the next
\* application message B delivers for A.
C3_MessageRoundTrip ==
    \A a \in Clients : \A b \in Clients \ {a} :
        IsPrefix(TextsAbout(shown[b], a), TextsAbout(sent[a], b))

\* C8 -- Racing sessions are both retained: an application message of the
\* peer that arrives on the topic of a group in the index is processed by the
\* state of that group and delivered, also after a later group was installed
\* for the same peer.
C8_RacingSessionsRetained ==
    \A c \in Clients :
        (/\ pc[c] = "run"
         /\ inbox[c] # << >>
         /\ Head(inbox[c]).topic.kind = "gm"
         /\ contains_key(group_peers[c], Head(inbox[c]).topic.id)
         /\ Head(inbox[c]).payload.sender # c)
        => LET g == Head(inbox[c]).topic.id
               p == group_peers[c][g]
           IN  /\ contains_key(groups[c], p)
               /\ groups[c][p].gid = g
               /\ ProcessResult(groups[c][p], Head(inbox[c]).payload) = "ApplicationMessage"

\* A step in which client c ran connect(p).
ConnectStep(c, p) ==
    /\ connects' = connects - 1
    /\ last'.op = "connect"
    /\ last'.c = c
    /\ last'.peer = p

\* C9 -- connect on an established peer is a no-op: key_packages, groups,
\* group_peers and pending_connects are unchanged and nothing is published or
\* subscribed.
C9_ConnectEstablishedNoOp ==
    [][\A c \in Clients : \A p \in PeerIds :
          (ConnectStep(c, p) /\ contains_key(groups[c], p)) =>
              /\ key_packages' = key_packages
              /\ groups' = groups
              /\ group_peers' = group_peers
              /\ pending_connects' = pending_connects
              /\ outq' = outq
              /\ subs' = subs /\ retained' = retained /\ inbox' = inbox]_vars

\* C9 witness: connect was typed for a peer that has a group.
C9_Witness ==
    /\ last.op = "connect"
    /\ last.res = "already"
    /\ contains_key(groups[last.c], last.peer)

\* The requests client c handed to the mqtt client in this step.
NewRequests(c) == SubSeq(outq'[c], Len(outq[c]) + 1, Len(outq'[c]))

\* C10 -- connect with a known key package establishes immediately: with a
\* key package stored, no group and no error, the step installs a group for the
\* peer, publishes a Welcome on relay/w/<peer>, requests the subscription to
\* relay/g/<gid>/m of the new group and does not touch PendingConnect.
C10_ConnectKnownEstablishes ==
    [][\A c \in Clients : \A p \in PeerIds :
          (/\ ConnectStep(c, p)
           /\ faults' = faults
           /\ contains_key(key_packages[c], p)
           /\ ~contains_key(groups[c], p)) =>
              /\ contains_key(groups'[c], p)
              /\ LET g == groups'[c][p].gid IN
                    /\ ~contains_key(group_peers[c], g)
                    /\ contains_key(group_peers'[c], g)
                    /\ group_peers'[c][g] = p
                    /\ \E r \in Range(NewRequests(c)) :
                          /\ r.req = "publish" /\ r.topic = WTopic(p) /\ ~r.retain
                          /\ r.payload.type = "welcome" /\ r.payload.gid = g
                    /\ Subscribe(GMTopic(g)) \in Range(NewRequests(c))
              /\ pending_connects' = pending_connects]_vars

\* C10 witness: connect found a stored key package and established the session.
C10_Witness ==
    /\ last.op = "connect"
    /\ last.res = "established"
    /\ contains_key(groups[last.c], last.peer)

\* C11 -- connect without key material only registers interest: with neither a
\* group nor a key package for the peer and no error in the step, the peer is
\* pushed on pending_connects, the only request is the subscribe to
\* relay/k/<peer> (so no Welcome and no GroupInfo is published), and groups,
\* group_peers and key_packages are unchanged.
C11_ConnectUnknownRegisters ==
    [][\A c \in Clients : \A p \in PeerIds :
          (/\ ConnectStep(c, p)
           /\ faults' = faults
           /\ ~contains_key(groups[c], p)
           /\ ~contains_key(key_packages[c], p)) =>
              /\ pending_connects' =
                     [pending_connects EXCEPT ![c] = Append(@, p)]
              /\ NewRequests(c) = <<Subscribe(KTopic(p))>>
              /\ groups' = groups
              /\ group_peers' = group_peers
              /\ key_packages' = key_packages]_vars

\* C11 witness: connect was typed for a peer the client knows nothing about;
\* the peer is pending and the subscribe is on its way to the broker.
C11_Witness ==
    /\ last.op = "connect"
    /\ last.res = "connecting"
    /\ pending_connects[last.c] = <<last.peer>>
    /\ outq[last.c] # << >>
    /\ outq[last.c][Len(outq[last.c])] = Subscribe(KTopic(last.peer))
    /\ ~contains_key(key_packages[last.c], last.peer)
    /\ ~contains_key(groups[last.c], last.peer)

\* A step in which client c handled the event at the head of its channel, an
\* event on relay/k/<p>.
KeyPackageStep(c, p) ==
    /\ inbox[c] # << >>
    /\ Head(inbox[c]).topic = KTopic(p)
    /\ inbox'[c] = Tail(inbox[c])
    /\ last'.op = "handle_key_package"
    /\ last'.c = c

\* C12 -- Key-package arrival for a pending peer: a valid key package handled
\* while the peer is in pending_connects leaves, when the handler returns Ok,
\* the peer out of pending_connects and a group installed for it; handled
\* while the peer is not pending it is only stored: no group is created and
\* nothing is sent.
C12_KeyPackageForPending ==
    [][\A c \in Clients : \A p \in PeerIds \ {c} :
          (KeyPackageStep(c, p) /\ Head(inbox[c]).payload.type = "kp") =>
              IF position(pending_connects[c], p) # 0
              THEN last'.res = "established" =>
                      /\ p \notin Range(pending_connects'[c])
                      /\ contains_key(groups'[c], p)
              ELSE /\ key_packages'[c][p] = Head(inbox[c]).payload.kp
                   /\ groups' = groups
                   /\ group_peers' = group_peers
                   /\ pending_connects' = pending_connects
                   /\ outq' = outq]_vars

\* C13 -- Self-publish filter: handling an event on relay/k/<self> changes none
\* of key_packages, groups, group_peers and pending_connects and hands no
\* request to the mqtt client, whatever the payload and also while the own id
\* is in pending_connects.
C13_SelfKeyPackageIgnored ==
    [][\A c \in Clients :
          KeyPackageStep(c, c) =>
              /\ key_packages' = key_packages
              /\ groups' = groups
              /\ group_peers' = group_peers
              /\ pending_connects' = pending_connects
              /\ outq' = outq
              /\ kp_store' = kp_store
              /\ last'.res = "self"]_vars

\* C13 witness: the client connected to its own id, has just handled its own
\* retained key package, and a payload that is no key package is the next
\* event on relay/k/<self>; the own id is still pending.
C13_Witness ==
    /\ last.op = "handle_key_package"
    /\ last.res = "self"
    /\ last.peer = last.c
    /\ position(pending_connects[last.c], last.c) # 0
    /\ inbox[last.c] # << >>
    /\ Head(inbox[last.c]) = Event(KTopic(last.c), Junk)
    /\ keys(key_packages[last.c]) = {}

\* C14 -- Invalid key package keeps the pending connect: a payload on
\* relay/k/<peer> that is no valid key package makes the handler return an
\* error with pending_connects, key_packages, groups and group_peers unchanged
\* and nothing sent; and a valid key package handled while the peer is pending
\* establishes the session (group installed, Welcome published) unless an error
\* occurs in that step.
C14_InvalidKeyPackageKeepsPending ==
    [][\A c \in Clients : \A p \in PeerIds \ {c} :
          KeyPackageStep(c, p) =>
              /\ Head(inbox[c]).payload.type # "kp" =>
                    /\ last'.res = "err"
                    /\ pending_connects' = pending_connects
                    /\ key_packages' = key_packages
                    /\ groups' = groups
                    /\ group_peers' = group_peers
                    /\ outq' = outq
              /\ (/\ Head(inbox[c]).payload.type = "kp"
                  /\ position(pending_connects[c], p) # 0
                  /\ faults' = faults) =>
                    /\ last'.res = "established"
                    /\ contains_key(groups'[c], p)
                    /\ groups'[c][p].gid \notin keys(group_peers[c])
                    /\ \E r \in Range(NewRequests(c)) :
                          /\ r.req = "publish" /\ r.topic = WTopic(p)
                          /\ r.payload.type = "welcome"
                          /\ r.payload.gid = groups'[c][p].gid]_vars

\* C14 witness: a payload that is no key package was handled for a pending
\* peer: the handler returned an error, the peer is still pending and has no
\* key package stored.
C14_Witness ==
    /\ last.op = "handle_key_package"
    /\ last.res = "err"
    /\ last.peer # last.c
    /\ position(pending_connects[last.c], last.peer) # 0
    /\ ~contains_key(key_packages[last.c], last.peer)

\* A step in which client c handled a Welcome and the handler returned Ok.
WelcomeStep(c) ==
    /\ inbox[c] # << >>
    /\ Head(inbox[c]).topic = WTopic(c)
    /\ inbox'[c] = Tail(inbox[c])
    /\ last'.op = "handle_welcome"
    /\ last'.c = c
    /\ last'.res = "established"

\* The publishes on relay/k/<c> among a sequence of requests.
KeyPackagePublishes(c, reqs) ==
    LET OnK(r) == r.req = "publish" /\ r.topic = KTopic(c)
    IN  SelectSeq(reqs, OnK)

\* The key package a subscriber of relay/k/<c> gets once the broker has served
\* the requests c has made so far: the last one c published.
NewestKeyPackage(c) ==
    LET queued == KeyPackagePublishes(c, outq[c])
    IN  IF queued # << >> THEN queued[Len(queued)].payload
        ELSE IF contains_key(retained, KTopic(c)) THEN retained[KTopic(c)]
        ELSE Junk

SendStep(c) ==
    /\ chats' = chats - 1
    /\ last'.op = "send"
    /\ last'.c = c

\* The publishes on a group message topic among a sequence of requests.
GroupMessagePublishes(reqs) ==
    LET OnGM(r) == r.req = "publish" /\ r.topic.kind = "gm"
    IN  SelectSeq(reqs, OnGM)

\* C16 -- chat requires a session: a chat that resolves to a peer without a
\* group fails with an error, publishes nothing and changes nothing in the
\* client; and a message is published on relay/g/<gid>/m only by a chat whose
\* resolved peer has a group installed, gid being the id of that group.
C16_ChatRequiresSession ==
    [][\A c \in Clients :
          /\ (/\ SendStep(c)
              /\ last'.peer # Unknown
              /\ ~contains_key(groups[c], last'.peer)) =>
                 /\ last'.res = "No session"
                 /\ outq' = outq
                 /\ key_packages' = key_packages
                 /\ groups' = groups
                 /\ group_peers' = group_peers
                 /\ pending_connects' = pending_connects
                 /\ sent' = sent
          /\ LET pubs == GroupMessagePublishes(NewRequests(c)) IN
             pubs # << >> =>
                 /\ SendStep(c)
                 /\ Len(pubs) = 1
                 /\ contains_key(groups[c], last'.peer)
                 /\ pubs[1].topic = GMTopic(groups[c][last'.peer].gid)
                 /\ pubs[1].payload.gid = groups[c][last'.peer].gid]_vars

\* C16 witness: chat named a peer known only by its key package (an earlier
\* create_group failed) and ended in "No session".
C16_Witness ==
    /\ last.op = "send"
    /\ last.res = "No session"
    /\ contains_key(key_packages[last.c], last.peer)
    /\ ~contains_key(groups[last.c], last.peer)

\* The peers client c knows, by group or by key package.
KnownPeers(c) == keys(groups[c]) \cup keys(key_packages[c])

\* C17 -- Ambiguous prefix is rejected: a query that is no known peer id and is
\* a prefix of two or more known peer ids does not resolve; a query resolves by
\* prefix only when exactly one known peer id starts with it.
C17_AmbiguousPrefixRejected ==
    \A c \in Clients : \A q \in Queries :
        LET matches == {k \in KnownPeers(c) : starts_with(k, q)} IN
        q \notin KnownPeers(c) =>
            /\ Cardinality(matches) >= 2 => ~find_peer(c, q).ok
            /\ find_peer(c, q).ok => Cardinality(matches) = 1

\* A step in which client c handled the event at the head of its channel, an
\* event on a relay/g/<gid>/m topic.
GroupMessageStep(c) ==
    /\ inbox[c] # << >>
    /\ Head(inbox[c]).topic.kind = "gm"
    /\ inbox'[c] = Tail(inbox[c])
    /\ last'.op = "handle_group_message"
    /\ last'.c = c

\* The event at the head of c's channel is a message c sent itself in the
\* group it holds under the topic's group id.
OwnEcho(c) ==
    LET e == Head(inbox[c])
        g == e.topic.id
    IN  /\ e.payload.type = "app"
        /\ e.payload.sender = c
        /\ contains_key(group_peers[c], g)
        /\ contains_key(groups[c], group_peers[c][g])
        /\ groups[c][group_peers[c][g]].gid = e.payload.gid
        /\ groups[c][group_peers[c][g]].epoch = e.payload.epoch

\* C18 -- Own-message echo is silently dropped: handling a message the client
\* published itself ends in CannotDecryptOwnMessage, and a step that ends so
\* returns Ok, displays nothing, sends nothing and leaves key_packages, groups,
\* group_peers and pending_connects unchanged.
C18_OwnEchoDropped ==
    [][\A c \in Clients :
          GroupMessageStep(c) =>
              /\ OwnEcho(c) => last'.res = "CannotDecryptOwnMessage"
              /\ last'.res = "CannotDecryptOwnMessage" =>
                    /\ ~Failed(last')
                    /\ shown' = shown
                    /\ outq' = outq
                    /\ key_packages' = key_packages
                    /\ groups' = groups
                    /\ group_peers' = group_peers
                    /\ pending_connects' = pending_connects]_vars

\* C18 witness: the client has sent a chat line and has just handled its echo;
\* nothing was displayed.
C18_Witness ==
    /\ last.op = "handle_group_message"
    /\ last.res = "CannotDecryptOwnMessage"
    /\ sent[last.c] # << >>
    /\ sent[last.c][1].peer = last.peer
    /\ shown[last.c] = << >>

\* A step in which client c handled the event at the head of its channel.
HandlerStep(c) ==
    /\ inbox[c] # << >>
    /\ inbox'[c] = Tail(inbox[c])
    /\ last'.c = c
    /\ last'.op \in {"handle_key_package", "handle_welcome", "handle_group_message"}

\* C19 -- Per-event isolation: a handler that returns an error drops its event
\* and leaves the loop running; a running loop can always dispatch the next
\* event of its channel, and with the channel empty the next command; the
\* loop ends only by quit.
C19_PerEventIsolation ==
    /\ [](\A c \in Clients :
            pc[c] = "run" =>
                IF inbox[c] # << >>
                THEN ENABLED dispatch(c)
                ELSE /\ ENABLED quit(c)
                     /\ ENABLED print_only(c)
                     /\ \A p \in typed[c] :
                           /\ connects > 0 => ENABLED connect(c, p, "none")
                           /\ chats > 0 =>
                                 ENABLED (\E text \in Texts : send(c, p, text, "none")))
    /\ [][\A c \in Clients :
            /\ (HandlerStep(c) /\ Failed(last')) => pc'[c] = "run"
            /\ (pc[c] = "run" /\ pc'[c] # "run") =>
                  /\ pc'[c] = "quit"
                  /\ last' = Ran(c, "quit", c, "ok")]_vars

\* C19 witness: a handler has just returned an error, the loop is running and
\* a later event waits in the channel.
C19_Witness ==
    /\ last.op \in {"handle_key_package", "handle_welcome", "handle_group_message"}
    /\ Failed(last)
    /\ pc[last.c] = "run"
    /\ inbox[last.c] # << >>

\* C20 -- Duplicate key-package delivery is idempotent: when the handler has
\* just handled a valid key package of a peer and the next event it handles is
\* the same key package again, the second handling changes none of
\* key_packages, groups, group_peers and pending_connects, creates no group and
\* publishes nothing.
C20_DuplicateKeyPackageIdempotent ==
    [][\A c \in Clients : \A p \in PeerIds \ {c} :
          (/\ KeyPackageStep(c, p)
           /\ last = Ran(c, "handle_key_package", p, last.res)
           /\ last.res \in {"established", "stored"}
           /\ Head(inbox[c]).payload.type = "kp"
           /\ Head(inbox[c]).payload.kp = key_packages[c][p]) =>
              /\ key_packages' = key_packages
              /\ groups' = groups
              /\ group_peers' = group_peers
              /\ pending_connects' = pending_connects
              /\ nextGid' = nextGid
              /\ outq' = outq]_vars

\* The event at the head of b's channel is a Welcome to a group b has already
\* installed for a: its second delivery.
DuplicateWelcome(b, a) ==
    /\ pc[b] = "run"
    /\ inbox[b] # << >>
    /\ Head(inbox[b]).topic = WTopic(b)
    /\ Head(inbox[b]).payload.type = "welcome"
    /\ contains_key(group_peers[b], Head(inbox[b]).payload.gid)
    /\ group_peers[b][Head(inbox[b]).payload.gid] = a

\* The k-th chat line a has sent to b is among those b has displayed from a.
Delivered(a, b, k) ==
    /\ k <= Len(TextsAbout(sent[a], b))
    /\ TextsAbout(sent[a], b)[k] \in Range(TextsAbout(shown[b], a))

\* Handling the second delivery replaces b's group entry for a or fails with
\* an MLS error that changes none of b's maps; b holds a group for a after it.
DuplicateWelcomeHandled ==
    [][\A b \in Clients : \A a \in Clients \ {b} :
          (/\ DuplicateWelcome(b, a)
           /\ inbox'[b] = Tail(inbox[b])
           /\ last'.op = "handle_welcome"
           /\ last'.c = b) =>
              /\ contains_key(groups'[b], a)
              /\ \/ /\ Failed(last')
                    /\ groups' = groups
                    /\ group_peers' = group_peers
                 \/ /\ last'.res = "established"
                    /\ groups'[b][a].gid = Head(inbox[b]).payload.gid]_vars

\* Every chat line x sends to y after the second delivery is displayed by y.
ChatAfterDuplicate(b, a, x, y) ==
    \A k \in 0 .. MaxChats :
        [](DuplicateWelcome(b, a) /\ Len(TextsAbout(sent[x], y)) = k =>
              [](Len(TextsAbout(sent[x], y)) > k => <>Delivered(x, y, k + 1)))

\* C21 -- Duplicate Welcome: the second delivery of a Welcome replaces B's
\* group entry or is dropped with an MLS error, B keeps a session with A, and
\* the chat lines sent afterwards, A to B and B to A, are delivered.
C21_DuplicateWelcome ==
    /\ DuplicateWelcomeHandled
    /\ \A b \in Clients : \A a \in Clients \ {b} :
          /\ ChatAfterDuplicate(b, a, a, b)
          /\ ChatAfterDuplicate(b, a, b, a)

\* The Welcomes among a sequence of requests.
WelcomePublishes(reqs) ==
    LET IsWelcome(r) == r.req = "publish" /\ r.payload.type = "welcome"
    IN  SelectSeq(reqs, IsWelcome)

Publishes(reqs) ==
    LET IsPublish(r) == r.req = "publish" IN SelectSeq(reqs, IsPublish)

\* The group ids drawn up to the end of this step.
DrawnGroupIds == {<<n>> : n \in 1 .. nextGid'}

\* C24 -- Publish topics and retained flags: every publish a client issues
\* goes to relay/k/<self>, relay/w/<peer>, relay/g/<gid>/m or relay/g/<gid>/i
\* with QoS at-least-once, and is retained exactly when the topic is
\* relay/k/<self> or relay/g/<gid>/i.
C24_PublishTopics ==
    [][\A c \in Clients :
          \A i \in 1 .. Len(Publishes(NewRequests(c))) :
              LET r == Publishes(NewRequests(c))[i] IN
              /\ r.qos = AtLeastOnce
              /\ \/ r.topic = KTopic(c)
                 \/ \E p \in PeerIds \ {c} : r.topic = WTopic(p)
                 \/ \E g \in DrawnGroupIds : r.topic \in {GMTopic(g), GITopic(g)}
              /\ r.retain <=> r.topic.kind \in {"k", "gi"}]_vars

\* C24 witness: all four kinds of publish have gone out: both key packages
\* and a group info are retained, B joined from A's Welcome and has displayed
\* a chat line of A.
C24_Witness ==
    /\ contains_key(retained, KTopic(IdA)) /\ contains_key(retained, KTopic(IdB))
    /\ \E g \in {<<n>> : n \in 1 .. nextGid} :
          /\ contains_key(retained, GITopic(g))
          /\ contains_key(groups[IdB], IdA) /\ groups[IdB][IdA].gid = g
          /\ \E i \in 1 .. Len(shown[IdB]) : shown[IdB][i].gid = g

\* C26 -- Envelope tampering fails the PoW check: when an envelope made by
\* seal_message has been changed in ephemeral_public_key, encrypted_payload or
\* pow_nonce and the hash of its encoding no longer has two leading zero bytes,
\* unseal_message returns the invalid-PoW error, whatever else is wrong with
\* the envelope, and has computed nothing but the hash.
C26_TamperingFailsPow ==
    (/\ ret.at = "unsealed"
     /\ ret.changed # "no"
     /\ ~PowOk(ret.envelope)) =>
        /\ ret.out.err = "Invalid PoW"
        /\ ret.out.done = <<"hash">>

\* C26 witness: the ephemeral key was cut to no byte at all, which the key
\* agreement would reject, the hash changed with it, and unseal_message given
\* the right secret returned the invalid-PoW error.
C26_Witness ==
    /\ ret.at = "unsealed"
    /\ ret.changed = "length"
    /\ ret.envelope.ephemeral_public_key = << >>
    /\ ~PowOk(ret.envelope)
    /\ args.my_secret = args.outer_secret
    /\ ret.out.err = "Invalid PoW"

\* C28 -- Seal/unseal round-trip: the envelope seal_message returns has
\* version 1 and a hash with two leading zero bytes; unseal_message of that
\* envelope with the secret of the key it was sealed to returns the payload,
\* and with any other secret it fails.
C28_SealUnsealRoundTrip ==
    /\ ret.at # "none" =>
          /\ ret.sealed.version = 1
          /\ PowOk(ret.sealed)
    /\ (ret.at = "unsealed" /\ ret.changed = "no") =>
          IF args.my_secret = args.outer_secret
          THEN /\ ret.out.ok
               /\ ret.out.payload = args.payload
          ELSE /\ ~ret.out.ok
               /\ ret.out.err = "Decrypt Fail"

\* C28 witness: a payload with content was sealed, the mining had to count,
\* and unsealing with the recipient's secret gave the payload back.
C28_Witness ==
    /\ ret.at = "unsealed"
    /\ ret.changed = "no"
    /\ args.my_secret = args.outer_secret
    /\ Len(args.payload.content) = MaxContent
    /\ ret.sealed.pow_nonce > 0
    /\ ret.out.ok
    /\ ret.out.payload = args.payload



\* The transport task of c is unsealing an envelope of which one byte of
\* encrypted_payload was changed on the way, and this step ends the unsealing.
UnsealsFlipped(c) ==
    /\ transport[c].at = "inbox_secret"
    /\ transport[c].payload.type = "cbor"
    /\ transport[c].payload.flipped
    /\ transport'[c].at # "inbox_secret"

\* C27 as stated: a sealed envelope with one byte of encrypted_payload flipped
\* is rejected with the decrypt-failure error and the recipient's state
\* (groups, peer_bundles, peer_outer_keys) is unchanged.
C27_FlippedDecryptFail ==
    [][\A c \in Clients :
          UnsealsFlipped(c) =>
              /\ last' = Ran(c, "process_inbox", Unknown, "Decrypt Fail")
              /\ state' = state]_vars

\* C27: a sealed envelope with one byte of encrypted_payload flipped is
\* rejected and the event is dropped with the recipient's state unchanged: the
\* error is "Invalid PoW" when the changed bytes no longer meet the
\* proof-of-work target, which is checked first, and "Decrypt Fail" (tag
\* mismatch) when they still do.
C27_FlippedRejected ==
    [][\A c \in Clients :
          UnsealsFlipped(c) =>
              LET envelope == DecodeEnvelope(transport[c].payload.bytes) IN
              /\ envelope.ok
              /\ last' = Ran(c, "process_inbox", Unknown,
                             IF PowOk(envelope.envelope) THEN "Decrypt Fail"
                                                         ELSE "Invalid PoW")
              /\ transport'[c].at = "poll"
              /\ state' = state]_vars

\* A flipped envelope that still met the proof-of-work target was rejected by
\* the tag.
C27_Witness ==
    \E c \in Clients :
        /\ transport[c].at = "poll"
        /\ transport[c].payload.type = "cbor"
        /\ transport[c].payload.flipped
        /\ last = Ran(c, "process_inbox", Unknown, "Decrypt Fail")

\* This step is c's transport task accepting a sealed Welcome.
AcceptsWelcome(c) ==
    /\ transport[c].at = "inbox_apply"
    /\ last' = Ran(c, "process_inbox", transport[c].inner.sender_user_id, "established")

\* C29: when a sealed Welcome is accepted, the id under which the joined group
\* is installed is the client_id in the credential of the group's only member
\* other than the client itself.
C29_PeerFromCredential ==
    [][\A c \in Clients :
          AcceptsWelcome(c) =>
              \E peer \in DOMAIN state'[c].groups :
                  LET group == state'[c].groups[peer] IN
                  /\ ~contains_key(state[c].groups, peer) \/ state[c].groups[peer] # group
                  /\ peer # c
                  /\ peer \in Range(group.members)
                  /\ Range(group.members) \subseteq {c, peer}]_vars

\* This step is a command of c's user reporting an error: "connect" or "chat"
\* in the relay client, "connect" or a chat line in relay-rs.
CommandFails(c) ==
    /\ last'.c = c
    /\ last'.op \in {"connect", "send_chat", "send"}
    /\ last'.res # "ok"
    /\ connects' # connects \/ chats' # chats \/ command'[c] # command[c]

\* C30: a user command that fails -- a failed subscribe inside connect, a
\* failed publish or an MLS error inside chat -- does not end the command
\* loop: the client is back at its prompt and reads the next line.
C30_ReplContinues ==
    [][\A c \in Clients :
          CommandFails(c) =>
              /\ pc[c] \in {"run", "repl"}
              /\ pc'[c] = pc[c]
              /\ command'[c].at = "idle"]_vars

\* The labels at which a task runs code of a critical section.
TransportSections == {"inbox_secret", "inbox_apply", "keys_insert"}
CommandSections == {"has_group", "welcome", "message"}

\* The fields of relay-rs's RelayClient.
RelayClientOf(c) ==
    << key_packages[c], groups[c], group_peers[c], pending_connects[c],
       kp_store[c], kp_next[c] >>

\* This step is one iteration of c's main loop in relay-rs: the start-up, a
\* handler taking the event at the head of the channel, or a command.
MainLoopStep(c) ==
    \/ pc[c] = "boot" /\ pc'[c] = "run"
    \/ pc[c] = "run" /\ inbox[c] # << >> /\ inbox'[c] = Tail(inbox[c])
    \/ Typed(c) /\ inbox'[c] = inbox[c]

\* C25: no two operations on a client's state overlap.  relay: a task is in a
\* critical section only as the holder of the state mutex, so the two tasks are
\* never in one together, and the state is read into a step's result or written
\* only by the holder.  relay-rs: the client's state changes only in an
\* iteration of its own main loop, one client per step.
C25_SingleOwner ==
    /\ [](\A c \in Clients :
            /\ transport[c].at \in TransportSections => mutex[c] = "transport"
            /\ command[c].at \in CommandSections => mutex[c] = "command"
            /\ ~(transport[c].at \in TransportSections
                    /\ command[c].at \in CommandSections))
    /\ [][\A c \in Clients :
            /\ state'[c] # state[c] =>
                  \/ mutex[c] = "transport" /\ transport[c].at \in TransportSections
                       /\ command'[c] = command[c]
                  \/ mutex[c] = "command" /\ command[c].at \in CommandSections
                       /\ transport'[c] = transport[c]
            /\ RelayClientOf(c)' # RelayClientOf(c) =>
                  /\ MainLoopStep(c)
                  /\ \A d \in Clients \ {c} : RelayClientOf(d)' = RelayClientOf(d)]_vars

\* The command task holds the mutex inside send_chat while the transport task,
\* with an inbox event in hand, waits for it.
C25_Witness ==
    \E c \in Clients :
        /\ mutex[c] = "command"
        /\ command[c].at \in CommandSections
        /\ transport[c].at = "inbox_lock"

\* C23: no sequence of RelayMlsClient operations yields a stored group with
\* more than two members.
C23_NoThirdMember ==
    \A c \in PeerIds :
        \A group_id \in DOMAIN mls[c].groups :
            Len(mls[c].groups[group_id].members) <= 2

\* No event is in flight: every request has reached the broker and every
\* channel is drained.
Quiescent == \A c \in Clients : outq[c] = << >> /\ inbox[c] = << >>

\* C31: in every quiescent state where two clients hold a group for each
\* other, the two groups have the same group id.
C31_SessionAgreement ==
    \A a \in Clients : \A b \in Clients \ {a} :
        (Quiescent /\ SessionReady(a, b)) =>
            groups[a][b].gid = groups[b][a].gid

\* This step is c running create_group for peer p: a group id is drawn.
EstablishOutbound(c, p) ==
    /\ nextGid' # nextGid
    /\ last'.c = c
    /\ last'.op \in {"handle_key_package", "connect"}
    /\ last'.peer = p

\* C32: create_group is never run for a peer that already has a group in the
\* group map.
C32_NoOutboundForEstablished ==
    [][\A c \in Clients : \A p \in PeerIds :
          EstablishOutbound(c, p) => ~contains_key(groups[c], p)]_vars

\* The broker is processing an application message that c published on the
\* topic of group g, and c's peer p in g holds that group for c.
BrokerTakesMessage(c, g, p) ==
    /\ outq[c] # << >>
    /\ outq'[c] = Tail(outq[c])
    /\ Head(outq[c]).req = "publish"
    /\ Head(outq[c]).topic = GMTopic(g)
    /\ Head(outq[c]).payload.type = "app"
    /\ contains_key(group_peers[c], g)
    /\ group_peers[c][g] = p
    /\ contains_key(groups[p], c)
    /\ groups[p][c].gid = g

\* C33: every application message a member publishes on relay/g/<gid>/m once
\* both members hold the group is delivered to the other member, whatever the
\* order in which the broker processes publishes and subscribes.
C33_NoMessageLost ==
    [][\A c \in Clients : \A p \in Clients \ {c} : \A g \in DOMAIN group_peers[c] :
          BrokerTakesMessage(c, g, p) =>
              /\ inbox'[p] # << >>
              /\ inbox'[p][Len(inbox'[p])] =
                     Event(GMTopic(g), Head(outq[c]).payload)
              /\ Len(inbox'[p]) = Len(inbox[p]) + 1]_vars

\* This step is c handling a valid key package of the pending peer p, with
\* the create_group it runs failing.
EstablishFails(c, p) ==
    /\ KeyPackageStep(c, p)
    /\ Head(inbox[c]).payload.type = "kp"
    /\ position(pending_connects[c], p) # 0
    /\ last'.res = "err"

\* C34: when a key package for a pending peer is accepted and create_group
\* then fails, the peer is still in pending_connects, and groups and
\* group_peers have no entry for the failed attempt.
C34_FailedEstablishRetried ==
    [][\A c \in Clients : \A p \in PeerIds \ {c} :
          EstablishFails(c, p) =>
              /\ position(pending_connects'[c], p) # 0
              /\ groups' = groups
              /\ group_peers' = group_peers]_vars

\* This step ends c's send_chat with an error before the Welcome of a group
\* that this call had to create was published.
ChatFailsBeforeWelcome(c) ==
    /\ \/ command[c].at = "welcome"
       \/ /\ command[c].at = "has_group"
          /\ ~contains_key(state[c].groups, command[c].peer)
    /\ command'[c].at = "idle"

\* C35: send_chat leaves a locally created group in groups only if the sealed
\* Welcome for it was published to the peer's inbox; when sealing or publishing
\* fails, no group is installed for the peer.
C35_SessionImpliesWelcome ==
    [][\A c \in Clients :
          ChatFailsBeforeWelcome(c) => ~contains_key(state'[c].groups, command[c].peer)]_vars
\* The command task of c is suspended in the publish of the Welcome: the request
\* channel is full, and only the event-loop task, inside poll, empties it.
PublishSuspended(c) ==
    /\ command[c].at = "welcome"
    /\ ~Awaits(c)

\* C36: send_chat never awaits a publish while it holds the state mutex, so the
\* command task and the event-loop task cannot block each other when the
\* request channel is full.
C36_NoAwaitUnderLock ==
    \A c \in Clients :
        /\ command[c].at = "welcome" => mutex[c] # "command"
        /\ ~(PublishSuspended(c) /\ transport[c].at \in DOMAIN LockSites)
\* This step is the return of c's process_inbox with an error.
ProcessInboxErr(c) ==
    /\ transport[c].at \in {"inbox_secret", "inbox_apply"}
    /\ transport'[c].at = "poll"
    /\ last'.c = c
    /\ last'.op = "process_inbox"
    /\ last'.res \notin {"ok", "established"}

\* C37: whenever process_inbox returns an error, the maps groups, peer_bundles
\* and peer_outer_keys of the AppState are what they were before the call.
C37_InboxErrorKeepsState ==
    [][\A c \in Clients :
          ProcessInboxErr(c) =>
              /\ state'[c].groups = state[c].groups
              /\ state'[c].peer_bundles = state[c].peer_bundles
              /\ state'[c].peer_outer_keys = state[c].peer_outer_keys]_vars
\* This step is a call of c's RelayMlsClient that returns an error.
FacadeCallFails(c) ==
    /\ last'.c = c
    /\ last'.op \in {"add_member", "join_from_welcome", "encrypt", "decrypt"}
    /\ last'.res # "ok"

\* C38: every add_member, join_from_welcome, encrypt or decrypt of the facade
\* that returns an error leaves the groups map and each group's epoch and
\* membership unchanged; an unknown group id creates no entry, and decrypt of
\* a message that is not an application message does not advance the group.
C38_FacadeErrorKeepsGroups ==
    [][\A c \in PeerIds : FacadeCallFails(c) => mls'[c].groups = mls[c].groups]_vars
\* C39: every line submitted on stdin, "quit" included, is eventually
\* dispatched by the main loop, even when inbound events keep arriving: a
\* running client whose user has typed quit eventually leaves the loop.
C39_CommandsNotStarved ==
    \A c \in Clients : (pc[c] = "run") ~> (pc[c] = "quit")
\* C40: in every reachable state neither the group map nor the key-package map
\* of a client has an entry keyed by the client's own id.
C40_NoSessionWithSelf ==
    \A c \in Clients :
        /\ ~contains_key(groups[c], c)
        /\ ~contains_key(key_packages[c], c)

\* The user of c has typed connect for the own id, c's own retained key package
\* was delivered and handled, and c has joined a group from a Welcome.
C40_Witness ==
    \E c \in Clients :
        /\ last = Ran(c, "handle_key_package", c, "self")
        /\ position(pending_connects[c], c) # 0
        /\ \E p \in DOMAIN groups[c] :
               /\ groups[c][p].own = c
               /\ groups[c][p].members[1] # c

\* Client c has published its key package and is subscribed to its Welcome
\* topic: the broker holds the one and has registered the other.
Bootstrapped(c) ==
    /\ contains_key(retained, KTopic(c))
    /\ WTopic(c) \in subs[c]

\* The user of a has just typed "connect b": a has handled nothing since.
ConnectIssued(a, b) ==
    /\ last.c = a /\ last.op = "connect" /\ last.peer = b
    /\ last.res \in {"connecting", "established"}

\* C1 -- Handshake liveness: with both clients bootstrapped, once A has issued
\* connect B, eventually A holds a group for B and B holds a group for A
\* (fair broker and event loops, no transport or MLS error).
C1_HandshakeLiveness ==
    \A a \in Clients : \A b \in Clients \ {a} :
        (Bootstrapped(a) /\ Bootstrapped(b) /\ ConnectIssued(a, b))
            ~> SessionReady(a, b)

\* C1 witness: both are bootstrapped, A has issued connect B and waits for
\* B's key package, and neither holds a group yet.
C1_Witness ==
    /\ Bootstrapped(IdA) /\ Bootstrapped(IdB)
    /\ ConnectIssued(IdA, IdB)
    /\ position(pending_connects[IdA], IdB) # 0
    /\ keys(groups[IdA]) = {} /\ keys(groups[IdB]) = {}
====
